---------------------------- MODULE Spec2Model ----------------------------
(***************************************************************************)
(* A model of the falling-block rules engine (core/game.py) and its shape  *)
(* catalog (core/tetrominoes.py).  The engine is one record, `game`, whose *)
(* fields are the attributes of TetrisGame; every method is an operator    *)
(* from an engine record to the engine record it leaves behind (and its    *)
(* return value), and every public method is one action.                   *)
(***************************************************************************)
EXTENDS Integers, Sequences, FiniteSets, TLC

(***************************************************************************)
(* Bounds of the model.                                                    *)
(***************************************************************************)
\* board width and height handed to the constructor
BoardWidth == 4
BoardHeight == 4
\* seeds handed to the constructor: 1..NumSeeds
NumSeeds == 3
\* next_queue_size values handed to the constructor and to the setter
MaxQueue == 1
\* lines_per_level values handed to the setter: 1..MaxLinesPerLevel
MaxLinesPerLevel == 1
\* how many times one behaviour may spawn, hold or lock a piece
MaxPieces == 3
\* next_queue_size values of the randomizer specification: 1..MaxBagQueue
MaxBagQueue == 3
\* how many times one behaviour of the hard-drop specification may spawn or drop
MaxDrops == 3
\* how many locks one behaviour of the scoring specification scores
MaxLocks == 3
\* the most rows one lock of the scoring specification completes
MaxCleared == 4
\* the largest lines_per_level of the level specification
MaxLevelLines == 3
\* how many spawns and drops the advisor specification plays
MaxAdvised == 2
\* starts, restarts and pieces made active in a session
MaxPlayed == 4

(***************************************************************************)
(* Shape catalog: tetrominoes.py                                           *)
(***************************************************************************)
TETROMINO_KEYS == <<"I", "O", "T", "S", "Z", "J", "L">>

Keys == {TETROMINO_KEYS[i] : i \in 1..Len(TETROMINO_KEYS)}

\* rotation=0 (spawn state) cells inside the fixed 3x3 / 4x4 box
TETROMINO_DEFS(key) ==
    CASE key = "I" -> {<<0, 2>>, <<1, 2>>, <<2, 2>>, <<3, 2>>}
      [] key = "O" -> {<<1, 1>>, <<2, 1>>, <<1, 2>>, <<2, 2>>}
      [] key = "T" -> {<<0, 1>>, <<1, 1>>, <<2, 1>>, <<1, 2>>}
      [] key = "S" -> {<<0, 1>>, <<1, 1>>, <<1, 2>>, <<2, 2>>}
      [] key = "Z" -> {<<1, 1>>, <<2, 1>>, <<0, 2>>, <<1, 2>>}
      [] key = "J" -> {<<0, 1>>, <<1, 1>>, <<2, 1>>, <<0, 2>>}
      [] key = "L" -> {<<0, 1>>, <<1, 1>>, <<2, 1>>, <<2, 2>>}

\* twice the rotation centre of each shape: (1,1) for the 3x3 shapes,
\* (1.5,1.5) for I and O
ROT_CENTER2_BY_KEY(key) ==
    IF key \in {"I", "O"} THEN <<3, 3>> ELSE <<2, 2>>

SetMin(S) == CHOOSE m \in S : \A y \in S : m <= y

SetMax(S) == CHOOSE m \in S : \A y \in S : m >= y

\* (dx,dz) -> (dz,-dx) about the centre (c2x/2, c2z/2); the sums are even, so
\* int(round(.)) is the exact half
rotate_cell_cw_about(x, z, c2x, c2z) ==
    <<(c2x + (2 * z - c2z)) \div 2, (c2z - (2 * x - c2x)) \div 2>>

\* (x,z) -> (z,-x), then shifted so that min x = min z = 0
rotate_cells_simple(cells) ==
    LET rotated == {<<c[2], 0 - c[1]>> : c \in cells}
        min_x == SetMin({c[1] : c \in rotated})
        min_z == SetMin({c[2] : c \in rotated})
    IN  {<<c[1] - min_x, c[2] - min_z>> : c \in rotated}

RECURSIVE TurnSimple(_, _)
TurnSimple(cells, turns) ==
    IF turns = 0 THEN cells
    ELSE TurnSimple(rotate_cells_simple(cells), turns - 1)

RECURSIVE TurnSRS(_, _, _)
TurnSRS(cells, c2, turns) ==
    IF turns = 0 THEN cells
    ELSE TurnSRS({rotate_cell_cw_about(c[1], c[2], c2[1], c2[2]) : c \in cells},
                 c2, turns - 1)

\* the 4 local cells of a shape in a rotation state; the sorted tuple of the
\* source is the set of its cells
rotated_cells(key, rotation, system) ==
    LET turns == rotation % 4
        cells == TETROMINO_DEFS(key)
    IN  IF system = "SIMPLE"
        THEN TurnSimple(cells, turns)
        ELSE TurnSRS(cells, ROT_CENTER2_BY_KEY(key), turns)

\* <<min_x, min_z, max_x, max_z>>
cells_bbox(cells) ==
    LET xs == {c[1] : c \in cells}
        zs == {c[2] : c \in cells}
    IN  <<SetMin(xs), SetMin(zs), SetMax(xs), SetMax(zs)>>

SRS_KICKS_JLSTZ(fr, tr) ==
    CASE fr = 0 /\ tr = 1 -> <<<<0, 0>>, <<-1, 0>>, <<-1, 1>>, <<0, -2>>, <<-1, -2>>>>
      [] fr = 1 /\ tr = 0 -> <<<<0, 0>>, <<1, 0>>, <<1, -1>>, <<0, 2>>, <<1, 2>>>>
      [] fr = 1 /\ tr = 2 -> <<<<0, 0>>, <<1, 0>>, <<1, -1>>, <<0, 2>>, <<1, 2>>>>
      [] fr = 2 /\ tr = 1 -> <<<<0, 0>>, <<-1, 0>>, <<-1, 1>>, <<0, -2>>, <<-1, -2>>>>
      [] fr = 2 /\ tr = 3 -> <<<<0, 0>>, <<1, 0>>, <<1, 1>>, <<0, -2>>, <<1, -2>>>>
      [] fr = 3 /\ tr = 2 -> <<<<0, 0>>, <<-1, 0>>, <<-1, -1>>, <<0, 2>>, <<-1, 2>>>>
      [] fr = 3 /\ tr = 0 -> <<<<0, 0>>, <<-1, 0>>, <<-1, -1>>, <<0, 2>>, <<-1, 2>>>>
      [] fr = 0 /\ tr = 3 -> <<<<0, 0>>, <<1, 0>>, <<1, 1>>, <<0, -2>>, <<1, -2>>>>
      [] OTHER -> <<<<0, 0>>>>

SRS_KICKS_I(fr, tr) ==
    CASE fr = 0 /\ tr = 1 -> <<<<0, 0>>, <<-2, 0>>, <<1, 0>>, <<-2, -1>>, <<1, 2>>>>
      [] fr = 1 /\ tr = 0 -> <<<<0, 0>>, <<2, 0>>, <<-1, 0>>, <<2, 1>>, <<-1, -2>>>>
      [] fr = 1 /\ tr = 2 -> <<<<0, 0>>, <<-1, 0>>, <<2, 0>>, <<-1, 2>>, <<2, -1>>>>
      [] fr = 2 /\ tr = 1 -> <<<<0, 0>>, <<1, 0>>, <<-2, 0>>, <<1, -2>>, <<-2, 1>>>>
      [] fr = 2 /\ tr = 3 -> <<<<0, 0>>, <<2, 0>>, <<-1, 0>>, <<2, 1>>, <<-1, -2>>>>
      [] fr = 3 /\ tr = 2 -> <<<<0, 0>>, <<-2, 0>>, <<1, 0>>, <<-2, -1>>, <<1, 2>>>>
      [] fr = 3 /\ tr = 0 -> <<<<0, 0>>, <<1, 0>>, <<-2, 0>>, <<1, -2>>, <<-2, 1>>>>
      [] fr = 0 /\ tr = 3 -> <<<<0, 0>>, <<-1, 0>>, <<2, 0>>, <<-1, 2>>, <<2, -1>>>>
      [] OTHER -> <<<<0, 0>>>>

\* the kick offsets of one rotation, in the order they are tried
srs_kicks(key, from_rotation, to_rotation) ==
    LET fr == from_rotation % 4
        tr == to_rotation % 4
    IN  IF fr = tr THEN <<<<0, 0>>>>
        ELSE IF key = "O" THEN <<<<0, 0>>>>
        ELSE IF key = "I" THEN SRS_KICKS_I(fr, tr)
        ELSE SRS_KICKS_JLSTZ(fr, tr)

(***************************************************************************)
(* ActivePiece: game.py                                                    *)
(***************************************************************************)
ActivePiece(key, rotation, x, z, system) ==
    [key |-> key, rotation |-> rotation, x |-> x, z |-> z, system |-> system]

cells_local(piece) == rotated_cells(piece.key, piece.rotation, piece.system)

cells_global(piece) ==
    {<<piece.x + c[1], piece.z + c[2]>> : c \in cells_local(piece)}


(***************************************************************************)
(* TetrisGame: game.py.  NoPiece is `current is None`, NoKey is            *)
(* `hold_key is None`.                                                     *)
(***************************************************************************)
NoPiece == <<>>

NoKey == "None"

\* random.Random(seed): the generator's position.  rng.shuffle yields the
\* permutation the position determines and advances the position.
ShuffleOutcome(pos) ==
    [i \in 1..Len(TETROMINO_KEYS) |->
        TETROMINO_KEYS[((i + pos - 1) % Len(TETROMINO_KEYS)) + 1]]

rng_shuffle(pos) ==
    [bag |-> ShuffleOutcome(pos), rng |-> (pos + 1) % Len(TETROMINO_KEYS)]

\* __init__
TetrisGame(width, height, seed, next_queue_size, lines_per_level, rotation_system) ==
    [width |-> width,
     height |-> height,
     rng |-> seed,
     rotation_system |-> rotation_system,
     next_queue_size |-> next_queue_size,
     lines_per_level |-> lines_per_level,
     score |-> 0,
     level |-> 1,
     lines_cleared_total |-> 0,
     combo |-> -1,
     back_to_back |-> FALSE,
     bag |-> <<>>,
     next_queue |-> <<>>,
     hold_key |-> NoKey,
     can_hold |-> TRUE,
     occupied |-> <<>>,
     current |-> NoPiece,
     game_over |-> FALSE,
     last_locked |-> FALSE,
     last_cleared_lines |-> 0,
     last_action |-> "",
     last_t_spin |-> FALSE,
     clearing_rows |-> <<>>,
     clear_anim_progress |-> 0,
     scoring_mode |-> "GUIDELINE",
     combo_scoring_mode |-> "MULTIPLY",
     draws |-> <<>>]

\* reset: everything but the configuration and the rng instance
reset(g) ==
    [g EXCEPT !.score = 0, !.level = 1, !.lines_cleared_total = 0,
              !.combo = -1, !.back_to_back = FALSE,
              !.bag = <<>>, !.next_queue = <<>>,
              !.hold_key = NoKey, !.can_hold = TRUE,
              !.occupied = <<>>, !.current = NoPiece, !.game_over = FALSE,
              !.last_locked = FALSE, !.last_cleared_lines = 0,
              !.last_action = "", !.last_t_spin = FALSE,
              !.clearing_rows = <<>>, !.clear_anim_progress = 0,
              !.draws = <<>>]

\* _bag_draw, first half: an empty bag is refilled and shuffled.  `draws`
\* is a history field, not an attribute: the keys drawn since the bag was
\* last found empty.
bag_refilled(g) ==
    IF g.bag = <<>>
    THEN [g EXCEPT !.bag = rng_shuffle(g.rng).bag, !.rng = rng_shuffle(g.rng).rng,
                   !.draws = <<>>]
    ELSE g

\* a draw that returns the first element of the bag and removes the last
bag_pop_wrong_end(g) ==
    [g |-> [g EXCEPT !.bag = SubSeq(g.bag, 1, Len(g.bag) - 1),
                     !.draws = Append(g.draws, g.bag[1])],
     key |-> g.bag[1]]

\* _bag_draw, second half: pop the last element of the bag
bag_pop(g) ==
    [g |-> [g EXCEPT !.bag = SubSeq(g.bag, 1, Len(g.bag) - 1),
                     !.draws = Append(g.draws, g.bag[Len(g.bag)])],
     key |-> g.bag[Len(g.bag)]]

\* _bag_draw
bag_draw(g) == bag_pop(bag_refilled(g))

\* next_queue.append(draw)
queue_append(d) == [d.g EXCEPT !.next_queue = Append(d.g.next_queue, d.key)]

\* _ensure_next_queue
RECURSIVE ensure_next_queue(_)
ensure_next_queue(g) ==
    IF Len(g.next_queue) < g.next_queue_size
    THEN ensure_next_queue(queue_append(bag_draw(g)))
    ELSE g

\* set_next_queue_size, for size > 0
set_next_queue_size(g, size) ==
    ensure_next_queue(
        [g EXCEPT !.next_queue_size = size,
                  !.next_queue = IF Len(g.next_queue) > size
                                 THEN SubSeq(g.next_queue, 1, size)
                                 ELSE g.next_queue])

Max2(a, b) == IF a >= b THEN a ELSE b

Min2(a, b) == IF a <= b THEN a ELSE b

\* a setter that stores the value and leaves the level as it was
set_lines_per_level_stale(g, value) ==
    [g EXCEPT !.lines_per_level = value]

\* set_lines_per_level, for value > 0
set_lines_per_level(g, value) ==
    [g EXCEPT !.lines_per_level = value,
              !.level = Max2(1, 1 + (g.lines_cleared_total \div value))]

\* next_queue[:count] of a filled queue
queue_prefix(g, count) ==
    [g |-> g, ret |-> SubSeq(g.next_queue, 1, Min2(count, Len(g.next_queue)))]

\* peek_next(count): fills the queue, returns its first count elements
peek_next(g, count) == queue_prefix(ensure_next_queue(g), count)

\* _collides_cells
collides_cells(g, cells) ==
    \E c \in cells :
        \/ c[1] < 0
        \/ c[1] >= g.width
        \/ c[2] < 0
        \/ (c[2] < g.height /\ c \in DOMAIN g.occupied)

\* a spawn position that puts the box's row 0, not the highest cell, on the top row
spawn_position_top(g, key) ==
    LET bbox == cells_bbox(rotated_cells(key, 0, "SRS"))
    IN  <<Max2(0, Min2((g.width \div 2) - 2, g.width - 1 - bbox[3])),
          g.height - 1>>

\* _spawn_position_for_key
spawn_position_for_key(g, key) ==
    LET bbox == cells_bbox(rotated_cells(key, 0, "SRS"))
    IN  <<Max2(0, Min2((g.width \div 2) - 2, g.width - 1 - bbox[3])),
          (g.height - 1) - bbox[4]>>

\* spawn_piece, from the collision test of the new piece on
spawn_install(g, piece) ==
    IF collides_cells(g, cells_global(piece))
    THEN [g |-> [g EXCEPT !.current = NoPiece, !.game_over = TRUE], ok |-> FALSE]
    ELSE [g |-> [g EXCEPT !.current = <<piece>>, !.can_hold = TRUE], ok |-> TRUE]

\* spawn_piece, from the spawn position on
spawn_at(g, key, pos) ==
    spawn_install(g, ActivePiece(key, 0, pos[1], pos[2], g.rotation_system))

\* a pop of the queue without the refill after it
queue_pop_unrefilled(g) ==
    [g |-> [g EXCEPT !.next_queue = Tail(g.next_queue)],
     key |-> g.next_queue[1]]

\* next_queue.pop(0) on a filled queue, and the refill after it
queue_pop(g) ==
    [g |-> ensure_next_queue([g EXCEPT !.next_queue = Tail(g.next_queue)]),
     key |-> g.next_queue[1]]

\* spawn_piece with the key it was given or has popped
spawn_key(g, key) == spawn_at(g, key, spawn_position_for_key(g, key))

spawn_popped(d) == spawn_key(d.g, d.key)

\* a spawn_piece without the game_over test
spawn_piece_unguarded(g, key) ==
    IF key = NoKey THEN spawn_popped(queue_pop(ensure_next_queue(g)))
    ELSE spawn_key(g, key)

\* spawn_piece(key): key = NoKey pops the next queue
spawn_piece(g, key) ==
    IF g.game_over THEN [g |-> g, ok |-> FALSE]
    ELSE IF key = NoKey THEN spawn_popped(queue_pop(ensure_next_queue(g)))
    ELSE spawn_key(g, key)

\* a try_hold that forgets to mark hold as used
hold_used_forgotten(sp) == sp

\* try_hold, its last two lines
hold_used(sp) == [g |-> [sp.g EXCEPT !.can_hold = FALSE], ok |-> sp.ok]

\* a try_hold that writes the hold slot before it tests can_hold
try_hold_early_write(g) ==
    IF g.current = NoPiece \/ g.game_over THEN [g |-> g, ok |-> FALSE]
    ELSE IF ~g.can_hold
    THEN [g |-> [g EXCEPT !.hold_key = g.current[1].key], ok |-> FALSE]
    ELSE hold_used(
             spawn_piece([g EXCEPT !.hold_key = g.current[1].key, !.current = NoPiece],
                         g.hold_key))

\* a try_hold that pops the queue whatever the hold slot holds
try_hold_always_pops(g) ==
    IF g.current = NoPiece \/ g.game_over THEN [g |-> g, ok |-> FALSE]
    ELSE IF ~g.can_hold THEN [g |-> g, ok |-> FALSE]
    ELSE hold_used(
             spawn_piece([g EXCEPT !.hold_key = g.current[1].key, !.current = NoPiece],
                         NoKey))

\* try_hold
try_hold(g) ==
    IF g.current = NoPiece \/ g.game_over THEN [g |-> g, ok |-> FALSE]
    ELSE IF ~g.can_hold THEN [g |-> g, ok |-> FALSE]
    ELSE hold_used(
             spawn_piece([g EXCEPT !.hold_key = g.current[1].key, !.current = NoPiece],
                         g.hold_key))

\* the candidate of try_move / can_move
moved_piece(piece, dx, dz) ==
    ActivePiece(piece.key, piece.rotation, piece.x + dx, piece.z + dz, piece.system)

\* try_move, from the collision test on
move_to(g, moved) ==
    IF collides_cells(g, cells_global(moved))
    THEN [g |-> g, ok |-> FALSE]
    ELSE [g |-> [g EXCEPT !.current = <<moved>>, !.last_action = "MOVE"], ok |-> TRUE]

\* try_move
try_move(g, dx, dz) ==
    IF g.current = NoPiece \/ g.game_over THEN [g |-> g, ok |-> FALSE]
    ELSE move_to(g, moved_piece(g.current[1], dx, dz))

\* a can_move that tests the walls and the floor only
can_move_walls_only(g, dx, dz) ==
    IF g.current = NoPiece \/ g.game_over THEN FALSE
    ELSE \A c \in cells_global(moved_piece(g.current[1], dx, dz)) :
             c[1] >= 0 /\ c[1] < g.width /\ c[2] >= 0

\* can_move
can_move(g, dx, dz) ==
    IF g.current = NoPiece \/ g.game_over THEN FALSE
    ELSE ~collides_cells(g, cells_global(
             ActivePiece(g.current[1].key, g.current[1].rotation,
                         g.current[1].x + dx, g.current[1].z + dz, g.current[1].system)))

SIMPLE_KICKS == <<<<0, 0>>, <<1, 0>>, <<-1, 0>>, <<2, 0>>, <<-2, 0>>>>

\* the kick list try_rotate walks
rotate_kicks(g, from_rotation, to_rotation) ==
    IF g.rotation_system = "SIMPLE" THEN SIMPLE_KICKS
    ELSE srs_kicks(g.current[1].key, from_rotation, to_rotation)

\* the candidate try_rotate builds for one kick offset
rotate_candidate(g, to_rotation, kick) ==
    ActivePiece(g.current[1].key, to_rotation,
                g.current[1].x + kick[1], g.current[1].z + kick[2],
                g.rotation_system)

\* a loop that keeps going after a fit: the last fitting kick wins
first_fitting_kick_last(g, to_rotation, kicks) ==
    IF \A i \in 1..Len(kicks) :
           collides_cells(g, cells_global(rotate_candidate(g, to_rotation, kicks[i])))
    THEN 0
    ELSE SetMax({i \in 1..Len(kicks) :
                    ~collides_cells(g, cells_global(rotate_candidate(g, to_rotation, kicks[i])))})

\* the index of the kick try_rotate's loop stops at, 0 when it runs through
first_fitting_kick(g, to_rotation, kicks) ==
    IF \A i \in 1..Len(kicks) :
           collides_cells(g, cells_global(rotate_candidate(g, to_rotation, kicks[i])))
    THEN 0
    ELSE SetMin({i \in 1..Len(kicks) :
                    ~collides_cells(g, cells_global(rotate_candidate(g, to_rotation, kicks[i])))})

\* try_rotate, once the loop has stopped at kick i
rotate_install(g, to_rotation, kicks, i) ==
    IF i = 0 THEN [g |-> g, ok |-> FALSE]
    ELSE [g |-> [g EXCEPT !.current = <<rotate_candidate(g, to_rotation, kicks[i])>>,
                          !.last_action = "ROTATE"],
          ok |-> TRUE]

\* try_rotate, from the kick list on
rotate_with(g, to_rotation, kicks) ==
    rotate_install(g, to_rotation, kicks, first_fitting_kick(g, to_rotation, kicks))

\* try_rotate, from the target rotation on
rotate_to(g, from_rotation, to_rotation) ==
    rotate_with(g, to_rotation, rotate_kicks(g, from_rotation, to_rotation))

\* try_rotate
try_rotate(g, cw) ==
    IF g.current = NoPiece \/ g.game_over THEN [g |-> g, ok |-> FALSE]
    ELSE rotate_to(g, g.current[1].rotation % 4,
                   ((g.current[1].rotation % 4) + (IF cw THEN 1 ELSE -1)) % 4)

\* the ascending list of the elements of a set of integers
RECURSIVE SortedSeq(_)
SortedSeq(S) ==
    IF S = {} THEN <<>>
    ELSE <<SetMin(S)>> \o SortedSeq(S \ {SetMin(S)})

SeqToSet(q) == {q[i] : i \in 1..Len(q)}

\* the 4 corners _detect_t_spin looks at
t_spin_corners(px, pz) ==
    {<<px - 1, pz - 1>>, <<px + 1, pz - 1>>, <<px - 1, pz + 1>>, <<px + 1, pz + 1>>}

\* _detect_t_spin, read after the piece's cells were written to occupied
detect_t_spin(g, piece) ==
    IF piece.key # "T" THEN FALSE
    ELSE IF g.last_action # "ROTATE" THEN FALSE
    ELSE Cardinality({c \in t_spin_corners(piece.x + 1, piece.z + 1) :
                         \/ c[1] < 0 \/ c[1] >= g.width
                         \/ c[2] < 0 \/ c[2] >= g.height
                         \/ c \in DOMAIN g.occupied}) >= 3

RECURSIVE Pow2(_)
Pow2(n) == IF n <= 0 THEN 1 ELSE 2 * Pow2(n - 1)

\* Guideline tables whose four-row entry repeats the three-row entry
GuidelineBase_flat(t_spin, cleared) ==
    IF t_spin
    THEN CASE cleared = 1 -> 800 [] cleared = 2 -> 1200 [] cleared = 3 -> 1600
           [] OTHER -> 0
    ELSE CASE cleared = 1 -> 100 [] cleared = 2 -> 300 [] cleared = 3 -> 500
           [] cleared = 4 -> 500 [] OTHER -> 0

\* the Guideline tables, .get(cleared, 0)
GuidelineBase(t_spin, cleared) ==
    IF t_spin
    THEN CASE cleared = 1 -> 800 [] cleared = 2 -> 1200 [] cleared = 3 -> 1600
           [] OTHER -> 0
    ELSE CASE cleared = 1 -> 100 [] cleared = 2 -> 300 [] cleared = 3 -> 500
           [] cleared = 4 -> 800 [] OTHER -> 0

\* combo_multiplier_step, in quarters (the default 0.25)
COMBO_MULTIPLIER_STEP_Q == 1

\* a base scaled by the level the cleared rows lead to
base_points_level_after(g, cleared) ==
    Max2(1, 1 + ((g.lines_cleared_total + cleared) \div g.lines_per_level))
        * (IF g.scoring_mode = "EXPONENTIAL"
           THEN 100 * Pow2(Max2(0, cleared - 1))
           ELSE GuidelineBase(g.last_t_spin, cleared))

\* base * level
base_points(g, cleared) ==
    g.level * (IF g.scoring_mode = "EXPONENTIAL"
               THEN 100 * Pow2(Max2(0, cleared - 1))
               ELSE GuidelineBase(g.last_t_spin, cleared))

\* int(points * 1.5) when this clear and the previous one are eligible
b2b_points(g, cleared, points) ==
    IF (g.last_t_spin \/ cleared = 4) /\ g.back_to_back
    THEN (points * 3) \div 2
    ELSE points

\* the combo bonus, added or multiplied
combo_points(g, combo, points) ==
    IF combo > 0
    THEN IF g.combo_scoring_mode = "ADD"
         THEN points + 50 * combo * g.level
         ELSE (points * (4 + COMBO_MULTIPLIER_STEP_Q * combo)) \div 4
    ELSE points

\* the points one clearing lock is awarded
clear_points(g, cleared, combo) ==
    combo_points(g, combo, b2b_points(g, cleared, base_points(g, cleared)))

\* a scoring that leaves the combo running through a lock that clears nothing
apply_line_clear_scoring_combo_kept(g, cleared) ==
    IF cleared <= 0
    THEN [g EXCEPT !.back_to_back = FALSE]
    ELSE [g EXCEPT !.lines_cleared_total = g.lines_cleared_total + cleared,
                   !.combo = IF g.combo >= 0 THEN g.combo + 1 ELSE 0,
                   !.score = g.score + clear_points(g, cleared,
                                           IF g.combo >= 0 THEN g.combo + 1 ELSE 0),
                   !.back_to_back = (g.last_t_spin \/ cleared = 4),
                   !.level = Max2(1, 1 + ((g.lines_cleared_total + cleared)
                                              \div g.lines_per_level))]

\* _apply_line_clear_scoring
apply_line_clear_scoring(g, cleared) ==
    IF cleared <= 0
    THEN [g EXCEPT !.combo = -1, !.back_to_back = FALSE]
    ELSE [g EXCEPT !.lines_cleared_total = g.lines_cleared_total + cleared,
                   !.combo = IF g.combo >= 0 THEN g.combo + 1 ELSE 0,
                   !.score = g.score + clear_points(g, cleared,
                                           IF g.combo >= 0 THEN g.combo + 1 ELSE 0),
                   !.back_to_back = (g.last_t_spin \/ cleared = 4),
                   !.level = Max2(1, 1 + ((g.lines_cleared_total + cleared)
                                              \div g.lines_per_level))]

\* the rows of the board whose every column is occupied
full_rows_of(g) ==
    {z \in 0..(g.height - 1) :
        Cardinality({c \in DOMAIN g.occupied : c[2] = z}) = g.width}

\* a lock that writes the cells above the top too
lock_write_overflow(g, piece, cells) ==
    [g EXCEPT !.last_locked = TRUE,
              !.last_cleared_lines = 0,
              !.game_over = (g.game_over \/ \E c \in cells : c[2] >= g.height),
              !.occupied = [c \in (DOMAIN g.occupied) \cup cells |->
                               IF c \in cells THEN piece.key ELSE g.occupied[c]]]

\* _lock_current: the piece's cells below the top are written, a cell at or
\* above the top flags game over
lock_write(g, piece, cells) ==
    [g EXCEPT !.last_locked = TRUE,
              !.last_cleared_lines = 0,
              !.game_over = (g.game_over \/ \E c \in cells : c[2] >= g.height),
              !.occupied = [c \in (DOMAIN g.occupied) \cup {d \in cells : d[2] < g.height} |->
                               IF c \in cells THEN piece.key ELSE g.occupied[c]]]

\* _lock_current: T-spin detection, current = None
lock_detect(g, piece) ==
    [g EXCEPT !.last_t_spin = detect_t_spin(g, piece), !.current = NoPiece]

\* a lock that collapses the full rows at once, as _clear_lines does
lock_rows_collapsing(g, full_rows) ==
    IF full_rows # <<>>
    THEN [apply_line_clear_scoring(
              [g EXCEPT !.clearing_rows = <<>>,
                        !.clear_anim_progress = 0,
                        !.last_cleared_lines = Len(full_rows)],
              Len(full_rows))
          EXCEPT !.occupied =
              [c \in {d \in DOMAIN g.occupied : d[2] \notin SeqToSet(full_rows)} |->
                  g.occupied[c]]]
    ELSE apply_line_clear_scoring(
             [g EXCEPT !.clearing_rows = <<>>, !.clear_anim_progress = 0], 0)

\* _lock_current: the full rows become pending and are scored
lock_rows(g, full_rows) ==
    IF full_rows # <<>>
    THEN apply_line_clear_scoring(
             [g EXCEPT !.clearing_rows = full_rows,
                       !.clear_anim_progress = 0,
                       !.last_cleared_lines = Len(full_rows)],
             Len(full_rows))
    ELSE apply_line_clear_scoring(
             [g EXCEPT !.clearing_rows = <<>>, !.clear_anim_progress = 0], 0)

\* a lock that records only the rows that were not pending already
lock_scan_new_rows(g) ==
    lock_rows(g, SortedSeq(full_rows_of(g) \ SeqToSet(g.clearing_rows)))

\* _lock_current: the scan of the whole map for full rows
lock_scan(g) == lock_rows(g, SortedSeq(full_rows_of(g)))

\* _lock_current, called with a current piece
_lock_current(g) ==
    lock_scan(lock_detect(lock_write(g, g.current[1], cells_global(g.current[1])),
                          g.current[1]))

\* the tail of lock_current, tick_down and hard_drop: spawn unless game over
spawn_after_lock(g) ==
    IF ~g.game_over /\ g.current = NoPiece THEN spawn_piece(g, NoKey).g ELSE g

\* lock_current
lock_current(g) ==
    IF g.current = NoPiece \/ g.game_over THEN g
    ELSE spawn_after_lock(_lock_current(g))

\* how many of the pending rows lie strictly below row z
rows_below(g, z) ==
    Cardinality({i \in 1..Len(g.clearing_rows) : g.clearing_rows[i] < z})

\* a finalize_clear that deletes the rows and forgets to shift
shifted_cell_unshifted(g, c) == c

\* where finalize_clear moves a kept cell
shifted_cell(g, c) == <<c[1], c[2] - rows_below(g, c[2])>>

\* the cells finalize_clear keeps
kept_cells(g) ==
    {c \in DOMAIN g.occupied : c[2] \notin SeqToSet(g.clearing_rows)}

\* finalize_clear
finalize_clear(g) ==
    IF g.clearing_rows = <<>> THEN g
    ELSE [g EXCEPT !.occupied =
                       [d \in {shifted_cell(g, c) : c \in kept_cells(g)} |->
                           g.occupied[CHOOSE c \in kept_cells(g) : shifted_cell(g, c) = d]],
                   !.clearing_rows = <<>>,
                   !.clear_anim_progress = 0]

\* the descent loop of get_ghost
RECURSIVE ghost_descend(_, _)
ghost_descend(g, ghost) ==
    IF collides_cells(g, cells_global(
           ActivePiece(ghost.key, ghost.rotation, ghost.x, ghost.z - 1, ghost.system)))
    THEN ghost
    ELSE ghost_descend(g,
             ActivePiece(ghost.key, ghost.rotation, ghost.x, ghost.z - 1, ghost.system))

\* a get_ghost that returns the piece where it is
get_ghost_undropped(g) ==
    IF g.current = NoPiece \/ g.game_over THEN NoPiece
    ELSE <<g.current[1]>>

\* get_ghost: NoPiece for None
get_ghost(g) ==
    IF g.current = NoPiece \/ g.game_over THEN NoPiece
    ELSE <<ghost_descend(g, g.current[1])>>

\* the first lines of tick_down and hard_drop: the event fields are cleared
events_cleared(g) == [g EXCEPT !.last_locked = FALSE, !.last_cleared_lines = 0]

\* a tick_down that locks and leaves the spawn to the caller
tick_moved_unspawned(g, mv) ==
    IF mv.ok THEN [g |-> mv.g, ret |-> TRUE]
    ELSE [g |-> _lock_current(g), ret |-> FALSE]

\* a tick_down that leaves a grounded piece in the field
tick_moved_unlocked(g, mv) ==
    IF mv.ok THEN [g |-> mv.g, ret |-> TRUE]
    ELSE [g |-> g, ret |-> FALSE]

\* tick_down, once try_move(0,-1) has returned mv
tick_moved(g, mv) ==
    IF mv.ok THEN [g |-> mv.g, ret |-> TRUE]
    ELSE [g |-> spawn_after_lock(_lock_current(g)), ret |-> FALSE]

tick_from(g) == tick_moved(g, try_move(g, 0, -1))

\* tick_down
tick_down(g) ==
    IF g.current = NoPiece THEN [g |-> g, ret |-> FALSE]
    ELSE tick_from(events_cleared(g))

\* the descent loop of hard_drop
RECURSIVE drop_loop(_, _)
drop_loop(g, distance) ==
    IF can_move(g, 0, -1)
    THEN drop_loop(try_move(g, 0, -1).g, distance + 1)
    ELSE [g |-> g, distance |-> distance]

\* a hard_drop that awards 1 point a row
drop_lock_one_point(dl) ==
    [g |-> spawn_after_lock(_lock_current(
               [dl.g EXCEPT !.last_action = "DROP",
                            !.score = dl.g.score + dl.distance])),
     ret |-> dl.distance]

\* a hard_drop that leaves the last action tag as it was
drop_lock_untagged(dl) ==
    [g |-> spawn_after_lock(_lock_current(
               [dl.g EXCEPT !.score = IF dl.distance > 0
                                      THEN dl.g.score + dl.distance * 2
                                      ELSE dl.g.score])),
     ret |-> dl.distance]

\* hard_drop, after the loop: the DROP tag, 2 points a row, the lock
drop_lock(dl) ==
    [g |-> spawn_after_lock(_lock_current(
               [dl.g EXCEPT !.last_action = "DROP",
                            !.score = IF dl.distance > 0
                                      THEN dl.g.score + dl.distance * 2
                                      ELSE dl.g.score])),
     ret |-> dl.distance]

\* hard_drop
hard_drop(g) ==
    IF g.current = NoPiece THEN [g |-> g, ret |-> 0]
    ELSE drop_lock(drop_loop(events_cleared(g), 0))

(***************************************************************************)
(* The advisor: ai.py.  A score is a whole number of 5,000,000ths, so that *)
(* the default weights and next_weight * score are exact.                  *)
(***************************************************************************)
\* WEIGHTS, times 5,000,000
WEIGHT_AGGREGATE_HEIGHT == -2550330

WEIGHT_LINES == 3803330

WEIGHT_HOLES == -1783150

WEIGHT_BUMPINESS == -922415

\* PLY2_NEXT_WEIGHT = 0.8, in fifths
PLY2_NEXT_WEIGHT_5 == 4

\* the 1.0e9 taken off a candidate without continuation; here a number that
\* exceeds the spread of the scores of every board within the bounds
NO_CONTINUATION_PENALTY == 1000000000

\* _collides
_collides(cells, occupied, width, height) ==
    \E c \in cells :
        \/ c[1] < 0 \/ c[1] >= width
        \/ c[2] < 0
        \/ c[2] < height /\ c \in occupied

\* tuple((x + cx, z + cz) for (cx, cz) in local)
placed_cells(local, x, z) == {<<x + c[1], z + c[2]>> : c \in local}

\* the loop of _drop_z
RECURSIVE drop_z_loop(_, _, _, _, _, _)
drop_z_loop(local, x, z, occupied, width, height) ==
    IF _collides(placed_cells(local, x, z - 1), occupied, width, height)
    THEN z
    ELSE drop_z_loop(local, x, z - 1, occupied, width, height)

\* _drop_z: <<>> is None
_drop_z(local, x, start_z, occupied, width, height) ==
    IF _collides(placed_cells(local, x, start_z), occupied, width, height)
    THEN <<>>
    ELSE <<drop_z_loop(local, x, start_z, occupied, width, height)>>

\* the rows _clear_lines finds full
clear_lines_full_rows(occupied, width, height) ==
    {z \in 0..(height - 1) :
        Cardinality({c \in DOMAIN occupied : c[2] = z}) = width}

\* a _clear_lines that deletes the full rows and leaves the rest in place
clear_lines_shift_unshifted(c, full_rows) == c

\* where _clear_lines moves the cell c
clear_lines_shift(c, full_rows) ==
    <<c[1], c[2] - Cardinality({r \in full_rows : r < c[2]})>>

\* the new_occupied of _clear_lines
clear_lines_collapse(occupied, full_rows) ==
    [d \in {clear_lines_shift(c, full_rows) :
               c \in {e \in DOMAIN occupied : e[2] \notin full_rows}} |->
        occupied[CHOOSE c \in DOMAIN occupied :
                     c[2] \notin full_rows /\ clear_lines_shift(c, full_rows) = d]]

\* _clear_lines
_clear_lines(occupied, width, height) ==
    IF clear_lines_full_rows(occupied, width, height) = {}
    THEN [occupied |-> occupied, lines |-> 0]
    ELSE [occupied |-> clear_lines_collapse(occupied,
                           clear_lines_full_rows(occupied, width, height)),
          lines |-> Cardinality(clear_lines_full_rows(occupied, width, height))]

\* _column_heights: the list, indexed from 0
_column_heights(occupied, width) ==
    [x \in 0..(width - 1) |->
        IF \E c \in occupied : c[1] = x
        THEN SetMax({c[2] : c \in {d \in occupied : d[1] = x}}) + 1
        ELSE 0]

\* _count_holes
_count_holes(occupied, heights) ==
    Cardinality({c \in (DOMAIN heights) \X (0..(SetMax({heights[x] : x \in DOMAIN heights}))) :
                    c[2] < heights[c[1]] /\ c \notin occupied})

Abs(n) == IF n < 0 THEN 0 - n ELSE n

RECURSIVE SumHeights(_, _)
SumHeights(heights, x) ==
    IF x \notin DOMAIN heights THEN 0 ELSE heights[x] + SumHeights(heights, x + 1)

\* _bumpiness, from column i on
RECURSIVE _bumpiness(_, _)
_bumpiness(heights, i) ==
    IF (i + 1) \notin DOMAIN heights THEN 0
    ELSE Abs(heights[i] - heights[i + 1]) + _bumpiness(heights, i + 1)

\* the linear combination of evaluate_position, default weights
weighted(agg_height, lines_cleared, holes, bump) ==
    [score |-> WEIGHT_AGGREGATE_HEIGHT * agg_height + WEIGHT_LINES * lines_cleared
                 + WEIGHT_HOLES * holes + WEIGHT_BUMPINESS * bump,
     holes |-> holes, aggregate_height |-> agg_height, bumpiness |-> bump]

\* evaluate_position, given the heights
evaluate_heights(occ_set, heights, lines_cleared) ==
    weighted(SumHeights(heights, 0), lines_cleared,
             _count_holes(occ_set, heights), _bumpiness(heights, 0))

\* evaluate_position
evaluate_position(occupied, width, height, lines_cleared) ==
    evaluate_heights(DOMAIN occupied, _column_heights(DOMAIN occupied, width), lines_cleared)

Placement(rotation, x, z, ev, lines_cleared) ==
    [rotation |-> rotation, x |-> x, z |-> z, score |-> ev.score,
     lines_cleared |-> lines_cleared, holes |-> ev.holes,
     aggregate_height |-> ev.aggregate_height, bumpiness |-> ev.bumpiness]

\* simulated[cell] = key for the placed cells
simulated_map(occupied, cells, key) ==
    [c \in (DOMAIN occupied) \cup cells |-> IF c \in cells THEN key ELSE occupied[c]]

\* the board after the piece landed at (x, z) and the full rows were cleared;
\* <<>> when there is no landing or a landed cell is at or above the top
simulate_landing(occupied, width, height, key, local, x, zs) ==
    IF zs = <<>> THEN <<>>
    ELSE IF \E c \in placed_cells(local, x, zs[1]) : c[2] >= height THEN <<>>
    ELSE <<_clear_lines(simulated_map(occupied, placed_cells(local, x, zs[1]), key),
                        width, height)>>

\* the candidate of one (rotation, x) of the 1-ply loop; <<>> when skipped
scored_candidate(rotation, x, zs, sim, width, height) ==
    IF sim = <<>> THEN <<>>
    ELSE <<Placement(rotation, x, zs[1],
                     evaluate_position(sim[1].occupied, width, height, sim[1].lines),
                     sim[1].lines)>>

dropped_candidate(occupied, width, height, key, local, rotation, x, zs) ==
    scored_candidate(rotation, x, zs,
                     simulate_landing(occupied, width, height, key, local, x, zs),
                     width, height)

\* range(0, width - max_x)
anchor_range(width, local) == 0..(width - SetMax({c[1] : c \in local}) - 1)

\* the body of the loops of find_best_placement for one (rotation, x);
\* the x outside range(0, width - max_x) are not visited
candidate_1ply(occupied, width, height, key, system, start_z, rotation, x) ==
    IF x \notin anchor_range(width, rotated_cells(key, rotation, system))
    THEN <<>>
    ELSE dropped_candidate(occupied, width, height, key,
                           rotated_cells(key, rotation, system), rotation, x,
                           _drop_z(rotated_cells(key, rotation, system), x, start_z,
                                   DOMAIN occupied, width, height))

\* a choice that lets a later candidate of equal score replace the best
keep_best_last(best, candidate) ==
    IF candidate = <<>> THEN best
    ELSE IF best = <<>> \/ candidate[1].score >= best[1].score THEN candidate
    ELSE best

\* if best is None or candidate.score > best.score: best = candidate
keep_best(best, candidate) ==
    IF candidate = <<>> THEN best
    ELSE IF best = <<>> \/ candidate[1].score > best[1].score THEN candidate
    ELSE best

\* for rotation in range(4): for x in range(0, width - max_x), from the
\* i-th pair (rotation, x) = (i div width, i mod width) on
RECURSIVE search_1ply(_, _, _, _, _, _, _, _)
search_1ply(occupied, width, height, key, system, start_z, i, best) ==
    IF i >= 4 * width THEN best
    ELSE search_1ply(occupied, width, height, key, system, start_z, i + 1,
             keep_best(best, candidate_1ply(occupied, width, height, key, system,
                                            start_z, i \div width, i % width)))

\* find_best_placement: <<>> is None
find_best_placement(g) ==
    IF g.current = NoPiece THEN <<>>
    ELSE search_1ply(g.occupied, g.width, g.height, g.current[1].key,
                     g.current[1].system, g.current[1].z, 0, <<>>)

\* _spawn_start_z
_spawn_start_z(key, height, system) ==
    (height - 1) - SetMax({c[2] : c \in rotated_cells(key, 0, system)})

\* a combination that adds the whole inner score
combined_score_undiscounted(score_1, best_next) ==
    IF best_next = <<>> THEN score_1 - NO_CONTINUATION_PENALTY
    ELSE score_1 + best_next[1].score

\* combined = score_1 - 1.0e9 without continuation, else
\* score_1 + best_next_score * next_weight
combined_score(score_1, best_next) ==
    IF best_next = <<>> THEN score_1 - NO_CONTINUATION_PENALTY
    ELSE score_1 + ((PLY2_NEXT_WEIGHT_5 * best_next[1].score) \div 5)

\* the inner loops of find_best_placement_2ply: the best placement of the
\* next shape on the board after the first placement, dropped from its
\* spawn height; its score is best_next_score
best_next_placement(occupied, width, height, next_key, system) ==
    search_1ply(occupied, width, height, next_key, system,
                _spawn_start_z(next_key, height, system), 0, <<>>)

\* the candidate of the outer loop, from the 1-ply candidate c of the same
\* (rotation, x) and the board sim it leaves
rescored_candidate(c, sim, width, height, next_key, system) ==
    IF c = <<>> THEN <<>>
    ELSE <<[c[1] EXCEPT !.score =
               combined_score(c[1].score,
                   best_next_placement(sim[1].occupied, width, height, next_key, system))]>>

landed_candidate_2ply(occupied, width, height, key, local, next_key, system, rotation, x, zs) ==
    rescored_candidate(
        dropped_candidate(occupied, width, height, key, local, rotation, x, zs),
        simulate_landing(occupied, width, height, key, local, x, zs),
        width, height, next_key, system)

\* the body of the outer loops of find_best_placement_2ply for one (rotation, x)
candidate_2ply(occupied, width, height, key, system, start_z, next_key, rotation, x) ==
    IF x \notin anchor_range(width, rotated_cells(key, rotation, system))
    THEN <<>>
    ELSE landed_candidate_2ply(occupied, width, height, key,
                               rotated_cells(key, rotation, system), next_key, system,
                               rotation, x,
                               _drop_z(rotated_cells(key, rotation, system), x, start_z,
                                       DOMAIN occupied, width, height))

RECURSIVE search_2ply(_, _, _, _, _, _, _, _, _)
search_2ply(occupied, width, height, key, system, start_z, next_key, i, best) ==
    IF i >= 4 * width THEN best
    ELSE search_2ply(occupied, width, height, key, system, start_z, next_key, i + 1,
             keep_best(best, candidate_2ply(occupied, width, height, key, system,
                                            start_z, next_key, i \div width, i % width)))

\* find_best_placement_2ply from `if not next_key` on; nxt is the tuple read
\* from the queue
placement_2ply(g, nxt) ==
    IF nxt = <<>> THEN find_best_placement(g)
    ELSE search_2ply(g.occupied, g.width, g.height, g.current[1].key,
                     g.current[1].system, g.current[1].z, nxt[1], 0, <<>>)

\* the 2-ply search on what peek_next(count=1) left of the engine
placement_after_peek(pk) == [g |-> pk.g, ret |-> placement_2ply(pk.g, pk.ret)]

\* find_best_placement_2ply on an engine: g is the engine after the call,
\* ret the placement, <<>> for None
find_best_placement_2ply(g) ==
    IF g.current = NoPiece THEN [g |-> g, ret |-> <<>>]
    ELSE placement_after_peek(peek_next(g, 1))

\* find_best_placement_2ply on an object that has the fields of the engine
\* and no peek_next: the next shape is read off next_queue
find_best_placement_2ply_fields(g) ==
    IF g.current = NoPiece THEN <<>>
    ELSE placement_2ply(g, SubSeq(g.next_queue, 1, Min2(1, Len(g.next_queue))))

\* plan_actions: the rotations
plan_rotations(delta) ==
    IF delta = 3 THEN <<"ROT_CCW">>
    ELSE IF delta = 2 THEN <<"ROT_CW", "ROT_CW">>
    ELSE [i \in 1..delta |-> "ROT_CW"]

\* a plan that moves away from the target
plan_moves_reversed(dx) ==
    IF dx > 0 THEN [i \in 1..dx |-> "LEFT"]
    ELSE IF dx < 0 THEN [i \in 1..(0 - dx) |-> "RIGHT"]
    ELSE <<>>

\* a plan that stops one column short of the target
plan_moves_short(dx) ==
    IF dx > 0 THEN [i \in 1..(dx - 1) |-> "RIGHT"]
    ELSE IF dx < 0 THEN [i \in 1..((0 - dx) - 1) |-> "LEFT"]
    ELSE <<>>

\* plan_actions: the moves
plan_moves(dx) ==
    IF dx > 0 THEN [i \in 1..dx |-> "RIGHT"]
    ELSE IF dx < 0 THEN [i \in 1..(0 - dx) |-> "LEFT"]
    ELSE <<>>

\* plan_actions
plan_actions(piece, target_rotation, target_x) ==
    plan_rotations((target_rotation - piece.rotation) % 4)
        \o plan_moves(target_x - piece.x) \o <<"DROP">>

(***************************************************************************)
(* The state machine: one engine, driven one public call at a time.        *)
(*   game    the TetrisGame object                                         *)
(*   pieces  how many calls so far spawned, held or locked a piece         *)
(* A call's return value is the `ok` / `ret` field of its operator.        *)
(***************************************************************************)
VARIABLES game, pieces

vars == <<game, pieces>>

RotationSystems == {"SRS", "SIMPLE"}

\* the (dx,dz) the callers pass: left, right, down
Moves == {<<-1, 0>>, <<1, 0>>, <<0, -1>>}

Init ==
    /\ \E seed \in 1..NumSeeds, sys \in RotationSystems :
           game = TetrisGame(BoardWidth, BoardHeight, seed, MaxQueue, MaxLinesPerLevel, sys)
    /\ pieces = 0

\* a call that spawns, holds or locks uses up one unit of the budget
Step(g) == game' = g /\ pieces' = IF g # game THEN pieces + 1 ELSE pieces

Spawn ==
    /\ pieces < MaxPieces
    /\ Step(spawn_piece(game, NoKey).g)

TryHold ==
    /\ pieces < MaxPieces
    /\ Step(try_hold(game).g)

TryMove ==
    \E m \in Moves :
        /\ game' = try_move(game, m[1], m[2]).g
        /\ UNCHANGED pieces

\* a query: it returns can_move(game, dx, dz) and writes nothing
CanMove ==
    \E m \in Moves :
        /\ can_move(game, m[1], m[2]) \in BOOLEAN
        /\ UNCHANGED vars

TryRotate ==
    \E cw \in BOOLEAN :
        /\ game' = try_rotate(game, cw).g
        /\ UNCHANGED pieces

LockCurrent ==
    /\ pieces < MaxPieces
    /\ Step(lock_current(game))

FinalizeClear ==
    /\ game' = finalize_clear(game)
    /\ UNCHANGED pieces

TickDown ==
    /\ can_move(game, 0, -1) \/ pieces < MaxPieces
    /\ game' = tick_down(game).g
    /\ pieces' = IF can_move(game, 0, -1) THEN pieces ELSE pieces + 1

HardDrop ==
    /\ pieces < MaxPieces
    /\ Step(hard_drop(game).g)

\* a query: it returns get_ghost(game) and writes nothing
GetGhost ==
    /\ Len(get_ghost(game)) <= 1
    /\ UNCHANGED vars

PeekNext ==
    \E count \in 1..MaxQueue :
        /\ game' = peek_next(game, count).g
        /\ UNCHANGED pieces

\* size <= 0 raises ValueError before anything is written
SetNextQueueSize ==
    \E size \in 0..MaxQueue :
        /\ game' = IF size <= 0 THEN game ELSE set_next_queue_size(game, size)
        /\ UNCHANGED pieces

\* value <= 0 raises ValueError before anything is written
SetLinesPerLevel ==
    \E value \in 0..MaxLinesPerLevel :
        /\ game' = IF value <= 0 THEN game ELSE set_lines_per_level(game, value)
        /\ UNCHANGED pieces

Reset ==
    /\ game' = reset(game)
    /\ UNCHANGED pieces

Next ==
    \/ Spawn
    \/ TryHold
    \/ TryMove
    \/ CanMove
    \/ TryRotate
    \/ LockCurrent
    \/ FinalizeClear
    \/ TickDown
    \/ HardDrop
    \/ GetGhost
    \/ PeekNext
    \/ SetNextQueueSize
    \/ SetLinesPerLevel
    \/ Reset

Spec == Init /\ [][Next]_vars

(***************************************************************************)
(* The randomizer on its own: the calls that draw from the bag, on a board *)
(* that stays empty, with no budget and a longer preview queue.            *)
(***************************************************************************)
InitBag ==
    /\ \E seed \in 1..NumSeeds, q \in 1..MaxBagQueue :
           game = TetrisGame(BoardWidth, BoardHeight, seed, q, MaxLinesPerLevel, "SRS")
    /\ pieces = 0

BagSpawn ==
    /\ game' = spawn_piece(game, NoKey).g
    /\ UNCHANGED pieces

BagTryHold ==
    /\ game' = try_hold(game).g
    /\ UNCHANGED pieces

BagPeekNext ==
    \E count \in 1..MaxBagQueue :
        /\ game' = peek_next(game, count).g
        /\ UNCHANGED pieces

BagSetNextQueueSize ==
    \E size \in 1..MaxBagQueue :
        /\ game' = set_next_queue_size(game, size)
        /\ UNCHANGED pieces

NextBag ==
    \/ BagSpawn
    \/ BagTryHold
    \/ BagPeekNext
    \/ BagSetNextQueueSize
    \/ Reset

SpecBag == InitBag /\ [][NextBag]_vars

(***************************************************************************)
(* Hard drops on boards of two widths: pieces are spawned, steered and     *)
(* dropped; pending rows are removed by finalize_clear.                    *)
(***************************************************************************)
InitDrop ==
    /\ \E seed \in 1..NumSeeds, width \in {BoardWidth, BoardWidth + 1},
          sys \in RotationSystems :
           game = TetrisGame(width, BoardHeight, seed, MaxQueue, MaxLinesPerLevel, sys)
    /\ pieces = 0

DropSpawn ==
    /\ pieces < MaxDrops
    /\ game.current = NoPiece
    /\ Step(spawn_piece(game, NoKey).g)

DropTryMove ==
    \E m \in Moves :
        /\ game' = try_move(game, m[1], m[2]).g
        /\ UNCHANGED pieces

DropTryRotate ==
    \E cw \in BOOLEAN :
        /\ game' = try_rotate(game, cw).g
        /\ UNCHANGED pieces

DropHardDrop ==
    /\ pieces < MaxDrops
    /\ Step(hard_drop(game).g)

DropFinalizeClear ==
    /\ game' = finalize_clear(game)
    /\ UNCHANGED pieces

NextDrop ==
    \/ DropSpawn
    \/ DropTryMove
    \/ DropTryRotate
    \/ DropHardDrop
    \/ DropFinalizeClear

SpecDrop == InitDrop /\ [][NextDrop]_vars

(***************************************************************************)
(* The scoring of locks on its own: each step is the scoring of one lock,  *)
(* given by the number of rows it completed and by what _detect_t_spin     *)
(* returned for it; the board is left out.  The two scoring modes are the  *)
(* attributes the operator writes on the engine.                           *)
(***************************************************************************)
ScoringModes == {"GUIDELINE", "EXPONENTIAL"}

ComboScoringModes == {"MULTIPLY", "ADD"}

InitScore ==
    /\ \E mode \in ScoringModes, combo_mode \in ComboScoringModes,
          lines_per_level \in 1..MaxLinesPerLevel :
           game = [TetrisGame(BoardWidth, BoardHeight, 1, MaxQueue, lines_per_level, "SRS")
                       EXCEPT !.scoring_mode = mode,
                              !.combo_scoring_mode = combo_mode]
    /\ pieces = 0

\* the engine as _lock_current hands it to the scoring of a lock
lock_outcome(g, cleared, t_spin) ==
    [g EXCEPT !.last_locked = TRUE,
              !.last_t_spin = t_spin,
              !.last_cleared_lines = cleared]

ScoreLock ==
    /\ pieces < MaxLocks
    /\ \E cleared \in 0..MaxCleared, t_spin \in BOOLEAN :
           game' = apply_line_clear_scoring(lock_outcome(game, cleared, t_spin), cleared)
    /\ pieces' = pieces + 1

NextScore ==
    \/ ScoreLock
    \/ Reset

SpecScore == InitScore /\ [][NextScore]_vars

(***************************************************************************)
(* The claims.  A claim about what a call does is stated of the call's     *)
(* operator applied to every reachable engine: the steps of the call's     *)
(* action are exactly these applications.                                  *)
(***************************************************************************)
(***************************************************************************)
(* Two engines in one process, built alike and fed the same calls: here    *)
(* the variable game holds both, as [first, second]; each call is made on  *)
(* the first engine and then on the second.                                *)
(***************************************************************************)
\* a generator shared by the engines of a process: g draws where the
\* other engine left off
shared_rng(g, other) == [g EXCEPT !.rng = other.rng]

\* self.rng = random.Random(seed): the generator is the engine's own, and
\* the draws of the other engine do not move it
own_rng(g, other) == g

\* the call F made on the first engine, then on the second
BothEngines(F(_), first, second) ==
    [first |-> F(own_rng(first, second)),
     second |-> F(own_rng(second, F(own_rng(first, second))))]

InitTwin ==
    /\ \E seed \in 1..NumSeeds, sys \in RotationSystems :
           game = [first |-> TetrisGame(BoardWidth, BoardHeight, seed, MaxQueue,
                                        MaxLinesPerLevel, sys),
                   second |-> TetrisGame(BoardWidth, BoardHeight, seed, MaxQueue,
                                         MaxLinesPerLevel, sys)]
    /\ pieces = 0

\* a call that spawns, holds or locks uses up one unit of the budget
TwinStep(tw) ==
    /\ game' = tw
    /\ pieces' = IF tw.first # game.first THEN pieces + 1 ELSE pieces

TwinSpawn ==
    /\ pieces < MaxPieces
    /\ TwinStep(BothEngines(LAMBDA g : spawn_piece(g, NoKey).g, game.first, game.second))

TwinTryHold ==
    /\ pieces < MaxPieces
    /\ TwinStep(BothEngines(LAMBDA g : try_hold(g).g, game.first, game.second))

TwinTryMove ==
    \E m \in Moves :
        /\ game' = BothEngines(LAMBDA g : try_move(g, m[1], m[2]).g, game.first, game.second)
        /\ UNCHANGED pieces

TwinTryRotate ==
    \E cw \in BOOLEAN :
        /\ game' = BothEngines(LAMBDA g : try_rotate(g, cw).g, game.first, game.second)
        /\ UNCHANGED pieces

TwinTickDown ==
    /\ pieces < MaxPieces
    /\ TwinStep(BothEngines(LAMBDA g : tick_down(g).g, game.first, game.second))

TwinHardDrop ==
    /\ pieces < MaxPieces
    /\ TwinStep(BothEngines(LAMBDA g : hard_drop(g).g, game.first, game.second))

TwinFinalizeClear ==
    /\ game' = BothEngines(finalize_clear, game.first, game.second)
    /\ UNCHANGED pieces

TwinSetNextQueueSize ==
    \E size \in 1..MaxQueue :
        /\ game' = BothEngines(LAMBDA g : set_next_queue_size(g, size), game.first, game.second)
        /\ UNCHANGED pieces

TwinSetLinesPerLevel ==
    \E value \in 1..MaxLinesPerLevel :
        /\ game' = BothEngines(LAMBDA g : set_lines_per_level(g, value), game.first, game.second)
        /\ UNCHANGED pieces

TwinReset ==
    /\ game' = BothEngines(reset, game.first, game.second)
    /\ UNCHANGED pieces

NextTwin ==
    \/ TwinSpawn
    \/ TwinTryHold
    \/ TwinTryMove
    \/ TwinTryRotate
    \/ TwinTickDown
    \/ TwinHardDrop
    \/ TwinFinalizeClear
    \/ TwinSetNextQueueSize
    \/ TwinSetLinesPerLevel
    \/ TwinReset

SpecTwin == InitTwin /\ [][NextTwin]_vars

(***************************************************************************)
(* The advisor at work: an engine played by spawns (from the queue or of a *)
(* named shape), moves, rotations and hard drops, and inspected by the     *)
(* 1-ply search and the planner.                                           *)
(***************************************************************************)
InitAdvisor ==
    /\ \E seed \in 1..NumSeeds, sys \in RotationSystems :
           game = TetrisGame(BoardWidth, BoardHeight, seed, MaxQueue, MaxLinesPerLevel, sys)
    /\ pieces = 0

AdvisorSpawn ==
    /\ pieces < MaxAdvised
    /\ game.current = NoPiece
    /\ \E key \in Keys \cup {NoKey} : game' = spawn_piece(game, key).g
    /\ pieces' = pieces + 1

AdvisorTryMove ==
    \E m \in Moves :
        /\ game' = try_move(game, m[1], m[2]).g
        /\ UNCHANGED pieces

AdvisorTryRotate ==
    \E cw \in BOOLEAN :
        /\ game' = try_rotate(game, cw).g
        /\ UNCHANGED pieces

AdvisorHardDrop ==
    /\ pieces < MaxAdvised
    /\ game.current # NoPiece
    /\ game' = hard_drop(game).g
    /\ pieces' = pieces + 1

AdvisorFinalizeClear ==
    /\ game' = finalize_clear(game)
    /\ UNCHANGED pieces

\* a query: it returns find_best_placement(game) and writes nothing
FindBestPlacement ==
    /\ Len(find_best_placement(game)) <= 1
    /\ UNCHANGED vars

\* the plan game_ops makes of a placement: a lone DROP when there is none
plan_for(piece, best) ==
    IF best = <<>> THEN <<"DROP">>
    ELSE plan_actions(piece, best[1].rotation, best[1].x)

\* a query: the plan for the placement the 1-ply search returns
PlanActions ==
    /\ game.current # NoPiece
    /\ Len(plan_for(game.current[1], find_best_placement(game))) >= 1
    /\ UNCHANGED vars

\* the play loop's step for one planned action (hard drop mode): the call it
\* makes and whether it succeeded
ai_action(g, action) ==
    IF action = "LEFT" THEN try_move(g, -1, 0)
    ELSE IF action = "RIGHT" THEN try_move(g, 1, 0)
    ELSE IF action = "ROT_CW" THEN try_rotate(g, TRUE)
    ELSE IF action = "ROT_CCW" THEN try_rotate(g, FALSE)
    ELSE [g |-> hard_drop(g).g, ok |-> TRUE]

\* the actions of a plan fed one by one; a failed action ends the plan
RECURSIVE feed_plan(_, _)
feed_plan(g, plan) ==
    IF plan = <<>> THEN g
    ELSE IF ai_action(g, Head(plan)).ok THEN feed_plan(ai_action(g, Head(plan)).g, Tail(plan))
    ELSE g

\* the plan for the placement of the 1-ply search is carried out
FeedPlan ==
    /\ pieces < MaxAdvised
    /\ game.current # NoPiece
    /\ game' = feed_plan(game, plan_for(game.current[1], find_best_placement(game)))
    /\ pieces' = pieces + 1

NextAdvisor ==
    \/ AdvisorSpawn
    \/ AdvisorTryMove
    \/ AdvisorTryRotate
    \/ AdvisorHardDrop
    \/ AdvisorFinalizeClear
    \/ FindBestPlacement
    \/ PlanActions
    \/ FeedPlan

SpecAdvisor == InitAdvisor /\ [][NextAdvisor]_vars

(***************************************************************************)
(* The 2-ply search at work, on an engine played as in the advisor         *)
(* specification.                                                          *)
(***************************************************************************)
Init2Ply ==
    /\ \E sys \in RotationSystems :
           game = TetrisGame(BoardWidth, BoardHeight, 1, MaxQueue, MaxLinesPerLevel, sys)
    /\ pieces = 0

\* the engine is left as the call's peek_next left it
FindBestPlacement2Ply ==
    /\ game' = find_best_placement_2ply(game).g
    /\ UNCHANGED pieces

Next2Ply ==
    \/ AdvisorSpawn
    \/ AdvisorTryMove
    \/ AdvisorTryRotate
    \/ AdvisorHardDrop
    \/ AdvisorFinalizeClear
    \/ FindBestPlacement2Ply

Spec2Ply == Init2Ply /\ [][Next2Ply]_vars

\* The level on its own: lock outcomes scored under a lines_per_level that
\* the setter changes in the middle of the game.
InitLevel ==
    /\ \E lines_per_level \in 1..MaxLevelLines :
           game = TetrisGame(BoardWidth, BoardHeight, 1, MaxQueue, lines_per_level, "SRS")
    /\ pieces = 0

LevelLock ==
    /\ pieces < MaxLocks
    /\ \E cleared \in 0..MaxCleared, t_spin \in BOOLEAN :
           game' = apply_line_clear_scoring(lock_outcome(game, cleared, t_spin), cleared)
    /\ pieces' = pieces + 1

\* value <= 0 raises ValueError before anything is written
LevelSetLinesPerLevel ==
    \E value \in 0..MaxLevelLines :
        /\ game' = IF value <= 0 THEN game ELSE set_lines_per_level(game, value)
        /\ UNCHANGED pieces

NextLevel ==
    \/ LevelLock
    \/ LevelSetLinesPerLevel
    \/ Reset

SpecLevel == InitLevel /\ [][NextLevel]_vars

(***************************************************************************)
(* The play loop: game_ops.py and session.py.  `game` is the session: the  *)
(* engine, the running flag, the settings the loop copies into the engine, *)
(* and the modal handlers the window manager has registered, newest first. *)
(* A handler keeps _lock_started_at (is it set) and the number of timer    *)
(* events in which it went on to drive the engine.  `activated` and        *)
(* `retired` are history fields: the pieces that became active, and the    *)
(* pieces that were locked or moved into the hold slot.  Manual play:      *)
(* auto_play is off, keys are tapped, the soft-drop key is left alone,     *)
(* lock_delay is positive, and nobody requests a pause through the         *)
(* session.                                                                *)
(***************************************************************************)
\* clear_anim_progress is counted in steps of 0.2; 1.0 is 5 steps
CLEAR_ANIM_DONE == 5

Active(g) == IF g.current = NoPiece THEN 0 ELSE 1

\* the session after an engine call that locks or holds the active piece
\* (gone: the piece left the field) and may have made a new one active
played(s, g, gone) ==
    [s EXCEPT !.engine = g,
              !.retired = IF gone THEN s.retired + 1 ELSE s.retired,
              !.activated = IF gone \/ s.engine.current = NoPiece
                            THEN s.activated + Active(g) ELSE s.activated]

\* create_session / restart_session: a fresh engine, seeded, with its first
\* piece spawned
restart_session(s) ==
    LET g == spawn_piece([reset(s.engine) EXCEPT !.rng = s.seed], NoKey).g
    IN  [s EXCEPT !.engine = g, !.activated = Active(g), !.retired = 0]

\* BLTETRIS_OT_restart.execute
restart_execute(s) == [restart_session(s) EXCEPT !.running = FALSE]

\* a new handler: _lock_started_at = None
Handler == [lock_started |-> FALSE]

\* BLTETRIS_OT_play.invoke: refused while running, else a new handler
play_invoke(s) ==
    IF s.running THEN s
    ELSE [s EXCEPT !.running = TRUE, !.handlers = <<Handler>> \o s.handlers]

\* what one call of modal leaves: the session, the handler, whether the
\* handler stays registered, whether the call went on to drive the engine,
\* and whether it set last_drop_time to now
going(s, h) == [s |-> s, h |-> h, alive |-> TRUE, drove |-> FALSE, dropped |-> FALSE]

\* BLTETRIS_OT_play.cancel, followed by the return of modal
play_cancel(s, h) == [going([s EXCEPT !.running = FALSE], h) EXCEPT !.alive = FALSE]

\* modal: the settings copied into the engine on every event
modal_settings(s) ==
    [s EXCEPT !.engine = set_lines_per_level(
                             set_next_queue_size(s.engine, s.next_queue_size),
                             s.lines_per_level)]

\* modal: _lock_started_at is set when the piece cannot move down
grounded(g) == ~can_move(g, 0, -1)

\* modal: a tapped key, while no row is being cleared
modal_key(s, h, key) ==
    IF key \in {"LEFT", "RIGHT"}
    THEN LET r == try_move(s.engine, IF key = "LEFT" THEN -1 ELSE 1, 0)
         IN  going([s EXCEPT !.engine = r.g],
                   IF r.ok THEN [h EXCEPT !.lock_started = grounded(r.g)] ELSE h)
    ELSE IF key \in {"ROT_CW", "ROT_CCW"}
    THEN LET r == try_rotate(s.engine, key = "ROT_CW")
         IN  going([s EXCEPT !.engine = r.g],
                   IF r.ok THEN [h EXCEPT !.lock_started = grounded(r.g)] ELSE h)
    ELSE IF key = "HOLD"
    THEN LET r == try_hold(s.engine)
         IN  [going(played(s, r.g, r.g # s.engine),
                    IF r.ok THEN [h EXCEPT !.lock_started = FALSE] ELSE h)
                 EXCEPT !.dropped = r.ok]
    ELSE [going(played(s, hard_drop(s.engine).g,
                       s.engine.current # NoPiece /\ ~s.engine.game_over),
                [h EXCEPT !.lock_started = FALSE])
             EXCEPT !.dropped = TRUE]

\* modal, TIMER: at progress 1.0 the rows are removed and spawn_piece is
\* called
clear_finish(s, g) ==
    IF g.game_over THEN [s EXCEPT !.engine = g]
    ELSE [s EXCEPT !.engine = spawn_piece(g, NoKey).g,
                   !.activated = s.activated + Active(spawn_piece(g, NoKey).g)]

\* modal, TIMER: the line-clear animation
modal_clear_anim(s, h) ==
    LET progress == s.engine.clear_anim_progress + 1
    IN  IF progress >= CLEAR_ANIM_DONE
        THEN [going(clear_finish(s, finalize_clear(
                        [s.engine EXCEPT !.clear_anim_progress = progress])),
                    [h EXCEPT !.lock_started = FALSE])
                 EXCEPT !.drove = TRUE, !.dropped = TRUE]
        ELSE [going([s EXCEPT !.engine.clear_anim_progress = progress], h)
                 EXCEPT !.drove = TRUE]

\* modal, TIMER: gravity, when the drop interval has passed.  `fresh` tells
\* that _lock_started_at was set to `now` in this event.
modal_gravity(s, h, due) ==
    IF s.engine.current # NoPiece /\ due
    THEN LET r == try_move(s.engine, 0, -1)
         IN  [s |-> [s EXCEPT !.engine = r.g],
              h |-> [h EXCEPT !.lock_started = ~r.ok],
              fresh |-> ~r.ok /\ ~h.lock_started,
              dropped |-> r.ok]
    ELSE [s |-> s, h |-> h, fresh |-> FALSE, dropped |-> FALSE]

\* modal, TIMER: the lock delay; a delay that started in this event has not
\* run out
modal_lock_delay(s, h, fresh, elapsed) ==
    IF s.engine.current = NoPiece \/ can_move(s.engine, 0, -1)
    THEN going(s, [h EXCEPT !.lock_started = FALSE])
    ELSE IF h.lock_started /\ ~fresh /\ elapsed
    THEN LET t == played(s, lock_current(s.engine), ~s.engine.game_over)
         IN  [(IF t.engine.game_over
               THEN play_cancel(t, [h EXCEPT !.lock_started = FALSE])
               ELSE going(t, [h EXCEPT !.lock_started = FALSE]))
                 EXCEPT !.dropped = TRUE]
    ELSE going(s, [h EXCEPT !.lock_started = TRUE])

modal_after_gravity(gr, elapsed) ==
    LET ld == modal_lock_delay(gr.s, gr.h, gr.fresh, elapsed)
    IN  [ld EXCEPT !.drove = TRUE, !.dropped = gr.dropped \/ ld.dropped]

\* modal, TIMER
modal_timer(s, h, due, elapsed) ==
    IF s.engine.game_over THEN play_cancel(s, h)
    ELSE IF s.engine.clearing_rows # <<>> THEN modal_clear_anim(s, h)
    ELSE modal_after_gravity(modal_gravity(s, h, due), elapsed)

\* BLTETRIS_OT_play.modal for one event: event is "TIMER", "PAUSE" or a key
play_modal(s, h, event, due, elapsed) ==
    IF ~s.running THEN play_cancel(s, h)
    ELSE IF event = "PAUSE" THEN play_cancel(modal_settings(s), h)
    ELSE IF event = "TIMER" THEN modal_timer(modal_settings(s), h, due, elapsed)
    ELSE IF s.engine.clearing_rows # <<>> THEN going(modal_settings(s), h)
    ELSE modal_key(modal_settings(s), h, event)

\* a TIMER event goes to every registered handler, newest first; `kept` are
\* the handlers still registered, `drivers` counts those that drove the
\* engine, and a handler whose turn comes after last_drop_time was set to
\* now finds the drop interval not passed
RECURSIVE timer_dispatch(_, _, _, _, _, _, _)
timer_dispatch(s, i, due, elapsed, kept, drivers, dropped) ==
    IF i > Len(s.handlers)
    THEN [s EXCEPT !.handlers = kept, !.drivers = drivers]
    ELSE LET r == play_modal(s, s.handlers[i], "TIMER", due /\ ~dropped, i \in elapsed)
         IN  timer_dispatch([r.s EXCEPT !.handlers = s.handlers], i + 1, due, elapsed,
                            IF r.alive THEN Append(kept, r.h) ELSE kept,
                            IF r.drove THEN drivers + 1 ELSE drivers,
                            dropped \/ r.dropped)

\* a key event goes to the newest handler, which keeps it
key_dispatch(s, event) ==
    LET r == play_modal(s, s.handlers[1], event, FALSE, FALSE)
    IN  [r.s EXCEPT !.handlers = IF r.alive THEN <<r.h>> \o Tail(s.handlers)
                                 ELSE Tail(s.handlers)]

\* the events a handler is sent between timer events
PlayKeys == {"LEFT", "RIGHT", "ROT_CW", "ROT_CCW", "HOLD", "HARD_DROP"}

\* the session _get_or_create_session_from_settings creates: the first piece
\* is spawned, no loop runs
InitPlay ==
    /\ \E seed \in 1..NumSeeds, sys \in RotationSystems :
           game = restart_session(
                      [engine |-> TetrisGame(BoardWidth, BoardHeight, seed, MaxQueue,
                                             MaxLinesPerLevel, sys),
                       seed |-> seed,
                       next_queue_size |-> MaxQueue,
                       lines_per_level |-> MaxLinesPerLevel,
                       running |-> FALSE,
                       handlers |-> <<>>,
                       drivers |-> 0,
                       activated |-> 0,
                       retired |-> 0])
    /\ pieces = 0

\* a step that starts a loop, restarts, or makes a piece active uses up one
\* unit of the budget
PlayStep(s) ==
    /\ game' = s
    /\ pieces' = IF s.activated # game.activated \/ s.retired # game.retired
                    \/ Len(s.handlers) > Len(game.handlers)
                 THEN pieces + 1 ELSE pieces

PlayStart ==
    /\ pieces < MaxPlayed
    /\ PlayStep(play_invoke(game))

PlayRestart ==
    /\ pieces < MaxPlayed
    /\ game' = restart_execute(game)
    /\ pieces' = pieces + 1

PlayPause ==
    /\ game.handlers # <<>>
    /\ PlayStep(key_dispatch(game, "PAUSE"))

PlayKey ==
    /\ pieces < MaxPlayed
    /\ game.handlers # <<>>
    /\ \E key \in PlayKeys : PlayStep(key_dispatch(game, key))

PlayTimer ==
    /\ pieces < MaxPlayed
    /\ game.handlers # <<>>
    /\ \E due \in BOOLEAN, elapsed \in SUBSET (1..Len(game.handlers)) :
           PlayStep(timer_dispatch(game, 1, due, elapsed, <<>>, 0, FALSE))

NextPlay ==
    \/ PlayStart
    \/ PlayRestart
    \/ PlayPause
    \/ PlayKey
    \/ PlayTimer

SpecPlay == InitPlay /\ [][NextPlay]_vars

(***************************************************************************)
(* The engine with a count of the rows finalize_clear has removed: `game`  *)
(* is the pair of the engine and that count.                               *)
(***************************************************************************)
InitRows ==
    /\ \E seed \in 1..NumSeeds, sys \in RotationSystems :
           game = [engine |-> TetrisGame(BoardWidth, BoardHeight, seed, MaxQueue,
                                         MaxLinesPerLevel, sys),
                   removed |-> 0]
    /\ pieces = 0

RowsStep(g) ==
    /\ game' = [game EXCEPT !.engine = g]
    /\ pieces' = IF g # game.engine THEN pieces + 1 ELSE pieces

RowsSpawn ==
    /\ pieces < MaxDrops
    /\ game.engine.current = NoPiece
    /\ RowsStep(spawn_piece(game.engine, NoKey).g)

RowsTryMove ==
    \E m \in Moves :
        /\ game' = [game EXCEPT !.engine = try_move(game.engine, m[1], m[2]).g]
        /\ UNCHANGED pieces

RowsTryRotate ==
    \E cw \in BOOLEAN :
        /\ game' = [game EXCEPT !.engine = try_rotate(game.engine, cw).g]
        /\ UNCHANGED pieces

RowsTickDown ==
    /\ can_move(game.engine, 0, -1) \/ pieces < MaxDrops
    /\ game' = [game EXCEPT !.engine = tick_down(game.engine).g]
    /\ pieces' = IF can_move(game.engine, 0, -1) THEN pieces ELSE pieces + 1

RowsHardDrop ==
    /\ pieces < MaxDrops
    /\ RowsStep(hard_drop(game.engine).g)

\* finalize_clear removes the rows of clearing_rows
RowsFinalizeClear ==
    /\ game' = [engine |-> finalize_clear(game.engine),
                removed |-> game.removed + Len(game.engine.clearing_rows)]
    /\ UNCHANGED pieces

NextRows ==
    \/ RowsSpawn
    \/ RowsTryMove
    \/ RowsTryRotate
    \/ RowsTickDown
    \/ RowsHardDrop
    \/ RowsFinalizeClear

SpecRows == InitRows /\ [][NextRows]_vars

HasPiece == game.current # NoPiece

\* no cell of the set is outside the side walls, below the floor or occupied
CellsFree(g, cells) ==
    \A c \in cells :
        /\ 0 <= c[1] /\ c[1] < g.width
        /\ 0 <= c[2]
        /\ c \notin DOMAIN g.occupied

\* the piece try_rotate(cw) tries with the i-th kick of the table
KickTable(g, cw) ==
    IF g.rotation_system = "SIMPLE" THEN SIMPLE_KICKS
    ELSE srs_kicks(g.current[1].key, g.current[1].rotation,
                   (g.current[1].rotation + (IF cw THEN 1 ELSE 3)) % 4)

KickCandidate(g, cw, i) ==
    [key |-> g.current[1].key,
     rotation |-> (g.current[1].rotation + (IF cw THEN 1 ELSE 3)) % 4,
     x |-> g.current[1].x + KickTable(g, cw)[i][1],
     z |-> g.current[1].z + KickTable(g, cw)[i][2],
     system |-> g.rotation_system]

KickFits(g, cw, i) == CellsFree(g, cells_global(KickCandidate(g, cw, i)))

\* C1: with an active piece, try_rotate(cw) installs the candidate of the
\* first kick offset, in table order, whose cells are free, tags the action
\* ROTATE and returns success; when every offset collides it returns failure
\* and leaves the piece (rotation, x, z) and the last-action tag as they were.
C1_TryRotate ==
    HasPiece /\ ~game.game_over =>
        \A cw \in BOOLEAN :
            IF \E i \in 1..Len(KickTable(game, cw)) : KickFits(game, cw, i)
            THEN \E i \in 1..Len(KickTable(game, cw)) :
                    /\ KickFits(game, cw, i)
                    /\ \A j \in 1..(i - 1) : ~KickFits(game, cw, j)
                    /\ try_rotate(game, cw).ok
                    /\ try_rotate(game, cw).g.current = <<KickCandidate(game, cw, i)>>
                    /\ try_rotate(game, cw).g.last_action = "ROTATE"
            ELSE /\ ~try_rotate(game, cw).ok
                 /\ try_rotate(game, cw).g = game

\* a rotation is about to succeed through a kick other than the first while a
\* later kick fits as well, and the opposite rotation is about to fail
C1_Witness ==
    /\ HasPiece /\ ~game.game_over
    /\ \E cw \in BOOLEAN :
          /\ ~KickFits(game, cw, 1)
          /\ Cardinality({i \in 1..Len(KickTable(game, cw)) : KickFits(game, cw, i)}) >= 2
          /\ try_rotate(game, cw).ok
    /\ game.last_action = "ROTATE"

\* C2: while rows are pending (clearing_rows non-empty) there is no active
\* piece, so that nothing falls or locks before finalize_clear.
C2_PendingRowsNoPiece ==
    game.clearing_rows # <<>> => game.current = NoPiece

PendingRows(g) == SeqToSet(g.clearing_rows)

PendingBelow(g, z) == Cardinality({r \in PendingRows(g) : r < z})

FullRows(occ, width, height) ==
    {z \in 0..(height - 1) : \A x \in 0..(width - 1) : <<x, z>> \in DOMAIN occ}

\* C3: finalize_clear with k pending rows deletes exactly the cells of those
\* rows, moves every other cell down by the number of pending rows strictly
\* below it, keeping its column and shape, leaves no full row, takes
\* k * width cells off the map and empties the pending set.
C3_FinalizeClear ==
    game.clearing_rows # <<>> =>
        /\ DOMAIN finalize_clear(game).occupied =
               {<<c[1], c[2] - PendingBelow(game, c[2])>> :
                   c \in {d \in DOMAIN game.occupied : d[2] \notin PendingRows(game)}}
        /\ \A c \in DOMAIN game.occupied :
               c[2] \notin PendingRows(game) =>
                   finalize_clear(game).occupied[<<c[1], c[2] - PendingBelow(game, c[2])>>]
                       = game.occupied[c]
        /\ Cardinality(DOMAIN finalize_clear(game).occupied) =
               Cardinality(DOMAIN game.occupied) - Len(game.clearing_rows) * game.width
        /\ FullRows(finalize_clear(game).occupied, game.width, game.height) = {}
        /\ finalize_clear(game).clearing_rows = <<>>

\* rows are pending below cells that finalize_clear has to move down
C3_Witness ==
    /\ game.clearing_rows # <<>>
    /\ \E c \in DOMAIN game.occupied :
          c[2] \notin PendingRows(game) /\ PendingBelow(game, c[2]) > 0

\* what one lock of `piece` must leave of engine g in engine l
LockFrame(g, piece, l) ==
    /\ DOMAIN l.occupied =
           (DOMAIN g.occupied) \cup {c \in cells_global(piece) : c[2] < g.height}
    /\ \A c \in DOMAIN g.occupied :
           c \notin cells_global(piece) => l.occupied[c] = g.occupied[c]
    /\ \A c \in cells_global(piece) : c[2] < g.height => l.occupied[c] = piece.key
    /\ LET full == FullRows(l.occupied, g.width, g.height)
       IN  /\ SeqToSet(l.clearing_rows) = full
           /\ l.last_cleared_lines = Cardinality(full)
           /\ full # {} =>
                  /\ l.lines_cleared_total = g.lines_cleared_total + Cardinality(full)
                  /\ l.combo = (IF g.combo >= 0 THEN g.combo + 1 ELSE 0)
                  /\ l.score >= g.score
                  /\ l.level = Max2(1, 1 + (l.lines_cleared_total \div g.lines_per_level))
           /\ full = {} =>
                  /\ l.lines_cleared_total = g.lines_cleared_total
                  /\ l.combo = -1

\* C4: a lock (lock_current, a tick_down that cannot move, hard_drop) never
\* removes or moves a cell of the map: the map afterwards is the map before
\* plus the piece's cells below the top; when rows are completed, lines,
\* combo and score are updated in that step and the rows stay in the map,
\* recorded as pending.
C4_LockKeepsMap ==
    HasPiece =>
        /\ LockFrame(game, game.current[1], lock_current(game))
        /\ ~can_move(game, 0, -1) =>
               LockFrame(game, game.current[1], tick_down(game).g)
        /\ LockFrame([game EXCEPT !.score = game.score + 2 * hard_drop(game).ret],
                     get_ghost(game)[1], hard_drop(game).g)

\* a lock has just completed rows: they are pending and still in the map
C4_Witness ==
    /\ game.last_locked
    /\ game.last_cleared_lines > 0
    /\ game.clearing_rows # <<>>
    /\ \A i \in 1..Len(game.clearing_rows) :
           \A x \in 0..(game.width - 1) :
               <<x, game.clearing_rows[i]>> \in DOMAIN game.occupied
    /\ \E c \in DOMAIN game.occupied : c[2] \notin PendingRows(game)

\* the pose spawn_piece gives a shape
IsSpawnPose(g, piece) ==
    /\ piece.rotation = 0
    /\ <<piece.x, piece.z>> = spawn_position_for_key(g, piece.key)

\* C5: hold succeeds at most once per piece lifetime: a try_hold that
\* succeeds leaves can_hold false; while can_hold is false try_hold returns
\* failure and changes nothing; and can_hold turns true again for an active
\* piece only in a step that spawns a piece.
C5_HoldOncePerPiece ==
    [][/\ try_hold(game).ok => ~try_hold(game).g.can_hold
       /\ ~game.can_hold => ~try_hold(game).ok /\ try_hold(game).g = game
       /\ (~game.can_hold /\ game'.can_hold /\ game'.current # NoPiece) =>
              /\ IsSpawnPose(game', game'.current[1])
              /\ game'.current # game.current \/ game'.next_queue # game.next_queue
                    \/ game'.bag # game.bag]_vars

\* hold has been used on the active piece: a second try_hold is refused
C5_Witness ==
    /\ HasPiece
    /\ ~game.can_hold
    /\ game.hold_key # NoKey
    /\ ~game.game_over

\* the fields C6 names
HoldView(g) ==
    <<g.hold_key, g.can_hold, g.current, g.next_queue, g.game_over>>

\* C6 as claimed: a try_hold that returns failure leaves the hold slot, the
\* hold-available flag, the active piece, the preview queue and game_over as
\* they were.
C6_FailedHoldChangesNothing ==
    ~try_hold(game).ok => HoldView(try_hold(game).g) = HoldView(game)

\* C6 as amended: a try_hold refused for want of an active piece, for game
\* over or for a hold already used changes nothing; a try_hold that passes
\* these tests and returns failure has found the swapped-in piece colliding
\* at its spawn pose: it has stored the previous shape in the hold slot,
\* left no active piece, cleared hold-available and set game_over, and has
\* popped the queue iff the hold slot was empty.
C6_FailedHold ==
    ~try_hold(game).ok =>
        IF ~HasPiece \/ game.game_over \/ ~game.can_hold
        THEN try_hold(game).g = game
        ELSE /\ try_hold(game).g.game_over
             /\ try_hold(game).g.current = NoPiece
             /\ try_hold(game).g.hold_key = game.current[1].key
             /\ ~try_hold(game).g.can_hold
             /\ try_hold(game).g.occupied = game.occupied
             /\ try_hold(game).g.score = game.score
             /\ IF game.hold_key = NoKey
                THEN try_hold(game).g.next_queue = spawn_piece(game, NoKey).g.next_queue
                ELSE try_hold(game).g.next_queue = game.next_queue

\* a try_hold of an active piece whose hold is still available is about to
\* fail: the piece it swaps in collides at its spawn pose
C6_Witness ==
    /\ HasPiece
    /\ ~game.game_over
    /\ game.can_hold
    /\ ~try_hold(game).ok
    /\ try_hold(game).g.game_over

\* the fields C7 names
OverView(g) ==
    <<g.occupied, g.score, g.hold_key, g.next_queue, g.game_over>>

\* C7: once game_over is true there is no active piece; spawn_piece,
\* try_move, try_rotate, tick_down, hard_drop, lock_current and try_hold
\* return failure and leave occupancy, score, hold slot, preview queue and
\* game_over as they were; only reset makes game_over false again.
C7_GameOverTerminal ==
    [][/\ game.game_over =>
              /\ game.current = NoPiece
              /\ ~spawn_piece(game, NoKey).ok
              /\ OverView(spawn_piece(game, NoKey).g) = OverView(game)
              /\ \A m \in Moves :
                     /\ ~try_move(game, m[1], m[2]).ok
                     /\ OverView(try_move(game, m[1], m[2]).g) = OverView(game)
              /\ \A cw \in BOOLEAN :
                     /\ ~try_rotate(game, cw).ok
                     /\ OverView(try_rotate(game, cw).g) = OverView(game)
              /\ tick_down(game).ret = FALSE
              /\ OverView(tick_down(game).g) = OverView(game)
              /\ hard_drop(game).ret = 0
              /\ OverView(hard_drop(game).g) = OverView(game)
              /\ OverView(lock_current(game)) = OverView(game)
              /\ ~try_hold(game).ok
              /\ OverView(try_hold(game).g) = OverView(game)
       /\ (game.game_over /\ ~game'.game_over) => game' = reset(game)]_vars

\* the game is over on a board whose spawn area is free: nothing but the
\* game_over flag stops the next spawn
C7_Witness ==
    /\ game.game_over
    /\ DOMAIN game.occupied # {}
    /\ \A k \in Keys :
           CellsFree(game, cells_global(
               ActivePiece(k, 0, spawn_position_for_key(game, k)[1],
                           spawn_position_for_key(game, k)[2], "SRS")))

\* C8: try_move(dx,dz) succeeds and replaces the active piece by the
\* translated one iff the translated cells are free; on failure the piece and
\* the last-action tag are unchanged; can_move(dx,dz) returns what try_move
\* returns.
C8_TryMove ==
    \A m \in Moves :
        /\ can_move(game, m[1], m[2]) = try_move(game, m[1], m[2]).ok
        /\ (HasPiece /\ ~game.game_over) =>
              /\ try_move(game, m[1], m[2]).ok =
                     CellsFree(game,
                         {<<c[1] + m[1], c[2] + m[2]>> : c \in cells_global(game.current[1])})
              /\ try_move(game, m[1], m[2]).ok =>
                     /\ try_move(game, m[1], m[2]).g.current =
                            <<[game.current[1] EXCEPT !.x = @ + m[1], !.z = @ + m[2]]>>
                     /\ try_move(game, m[1], m[2]).g.last_action = "MOVE"
              /\ ~try_move(game, m[1], m[2]).ok => try_move(game, m[1], m[2]).g = game
        /\ ~(HasPiece /\ ~game.game_over) =>
              /\ ~try_move(game, m[1], m[2]).ok
              /\ try_move(game, m[1], m[2]).g = game

\* a piece that has just moved has one move open and one blocked by a cell
\* of the map, inside the walls and above the floor
C8_Witness ==
    /\ HasPiece
    /\ game.last_action = "MOVE"
    /\ \E m \in Moves : can_move(game, m[1], m[2])
    /\ \E m \in Moves :
          /\ ~can_move(game, m[1], m[2])
          /\ \A c \in cells_global(game.current[1]) :
                 0 <= c[1] + m[1] /\ c[1] + m[1] < game.width /\ 0 <= c[2] + m[2]

\* C9: every key of the occupancy map is a cell of the board, and a lock of
\* a piece that has a cell at or above the top row sets game_over.
C9_OccupancyInBounds ==
    /\ \A c \in DOMAIN game.occupied :
          0 <= c[1] /\ c[1] < game.width /\ 0 <= c[2] /\ c[2] < game.height
    /\ (HasPiece /\ \E c \in cells_global(game.current[1]) : c[2] >= game.height) =>
          /\ lock_current(game).game_over
          /\ ~can_move(game, 0, -1) => tick_down(game).g.game_over

\* a piece kicked upwards sticks out above the top row of a board that
\* holds locked cells, and cannot move down
C9_Witness ==
    /\ HasPiece
    /\ \E c \in cells_global(game.current[1]) : c[2] >= game.height
    /\ ~can_move(game, 0, -1)
    /\ DOMAIN game.occupied # {}

\* C10: the keys drawn since the bag was last found empty are pairwise
\* different, are the keys missing from the bag, and are all 7 keys once 7
\* have been drawn.
C10_SevenBag ==
    /\ Len(game.draws) <= Len(TETROMINO_KEYS)
    /\ \A i, j \in 1..Len(game.draws) : i # j => game.draws[i] # game.draws[j]
    /\ Len(game.draws) = Len(TETROMINO_KEYS) => SeqToSet(game.draws) = Keys
    /\ game.draws # <<>> => SeqToSet(game.draws) = Keys \ SeqToSet(game.bag)

\* a bag has been drawn to its end, by spawns and a hold
C10_Witness ==
    /\ Len(game.draws) = Len(TETROMINO_KEYS)
    /\ game.bag = <<>>
    /\ game.hold_key # NoKey
    /\ HasPiece


\* C11: after a spawn that pops the preview queue (a spawn_piece without key
\* in a game that is not over, a try_hold into an empty hold slot), after
\* peek_next and after set_next_queue_size, the preview queue holds exactly
\* next_queue_size shapes.
C11_QueueRestored ==
    /\ ~game.game_over =>
           Len(spawn_piece(game, NoKey).g.next_queue) =
               spawn_piece(game, NoKey).g.next_queue_size
    /\ (HasPiece /\ ~game.game_over /\ game.can_hold /\ game.hold_key = NoKey) =>
           Len(try_hold(game).g.next_queue) = game.next_queue_size
    /\ \A count \in 1..MaxBagQueue :
           /\ Len(peek_next(game, count).g.next_queue) = game.next_queue_size
           /\ Len(peek_next(game, count).ret) = Min2(count, game.next_queue_size)
    /\ \A size \in 1..MaxBagQueue :
           /\ set_next_queue_size(game, size).next_queue_size = size
           /\ Len(set_next_queue_size(game, size).next_queue) = size

\* a queue of the longest size has been popped by a spawn and by a hold and
\* is full: a set_next_queue_size below its length has to cut it
C11_Witness ==
    /\ HasPiece
    /\ game.hold_key # NoKey
    /\ game.next_queue_size = MaxBagQueue
    /\ Len(game.next_queue) = MaxBagQueue
    /\ Len(set_next_queue_size(game, 1).next_queue) = 1

\* C12: a try_hold that succeeds stores the shape that was active in the
\* hold slot and makes active, at rotation 0 and at its spawn position, the
\* shape that was held, or the head of the preview queue when the slot was
\* empty; the queue is popped iff the slot was empty.
C12_HoldSwap ==
    try_hold(game).ok =>
        /\ try_hold(game).g.hold_key = game.current[1].key
        /\ try_hold(game).g.current # NoPiece
        /\ try_hold(game).g.current[1].key =
               (IF game.hold_key = NoKey THEN game.next_queue[1] ELSE game.hold_key)
        /\ try_hold(game).g.current[1].rotation = 0
        /\ IsSpawnPose(game, try_hold(game).g.current[1])
        /\ game.hold_key # NoKey =>
               /\ try_hold(game).g.next_queue = game.next_queue
               /\ try_hold(game).g.bag = game.bag
        /\ game.hold_key = NoKey =>
               /\ Len(game.next_queue) = game.next_queue_size
               /\ \A i \in 1..(Len(game.next_queue) - 1) :
                      try_hold(game).g.next_queue[i] = game.next_queue[i + 1]
               /\ Len(try_hold(game).g.bag) # Len(game.bag)

\* a try_hold is about to swap the active shape with a different held shape
\* that is not the head of the queue either
C12_Witness ==
    /\ HasPiece
    /\ game.can_hold
    /\ game.hold_key # NoKey
    /\ game.hold_key # game.current[1].key
    /\ game.hold_key # game.next_queue[1]
    /\ try_hold(game).ok


\* the cells of shape `key` at rotation 0 with the box at pos, from the catalog
SpawnCells(key, pos) == {<<pos[1] + c[1], pos[2] + c[2]>> : c \in TETROMINO_DEFS(key)}

\* what spawn_piece must return for shape `key` in engine g: r is its result
SpawnOutcome(g, key, r) ==
    LET pos   == spawn_position_for_key(g, key)
        cells == SpawnCells(key, pos)
    IN  /\ \A c \in cells : 0 <= c[1] /\ c[1] < g.width
        /\ SetMax({c[2] : c \in cells}) = g.height - 1
        /\ IF CellsFree(g, cells)
           THEN /\ r.ok
                /\ r.g.current = <<[key |-> key, rotation |-> 0, x |-> pos[1],
                                    z |-> pos[2], system |-> g.rotation_system]>>
                /\ cells_global(r.g.current[1]) = cells
                /\ r.g.can_hold
                /\ ~r.g.game_over
           ELSE /\ ~r.ok
                /\ r.g.current = NoPiece
                /\ r.g.game_over

CellsDown(piece, n) == {<<c[1], c[2] - n>> : c \in cells_global(piece)}

\* how far the active piece of g can fall: the first n whose next row is blocked
DropDistance(g) ==
    SetMin({n \in 0..(g.height + 4) : ~CellsFree(g, CellsDown(g.current[1], n + 1))})

\* the active piece of g is an I piece lying in one row of an empty board
FlatIOnEmptyBoard(g) ==
    /\ g.current # NoPiece
    /\ g.current[1].key = "I"
    /\ Cardinality({c[2] : c \in cells_global(g.current[1])}) = 1
    /\ DOMAIN g.occupied = {}

\* hard_drop lands the piece on the lowest row it can reach, returns the
\* rows descended, and awards 2 points a row on top of what the lock awards
DropsAndLocks(g) ==
    /\ hard_drop(g).ret = DropDistance(g)
    /\ \A c \in CellsDown(g.current[1], DropDistance(g)) :
           c[2] < g.height =>
               /\ c \in DOMAIN hard_drop(g).g.occupied
               /\ hard_drop(g).g.occupied[c] = g.current[1].key
    /\ DOMAIN hard_drop(g).g.occupied \subseteq
           (DOMAIN g.occupied) \cup CellsDown(g.current[1], DropDistance(g))
    /\ hard_drop(g).g.last_locked
    /\ hard_drop(g).g.score =
           lock_current([g EXCEPT !.current =
                                      <<[g.current[1] EXCEPT !.z = @ - DropDistance(g)]>>,
                                  !.last_action = "DROP"]).score
               + 2 * DropDistance(g)
    /\ hard_drop(g).g.last_cleared_lines = 0 =>
           hard_drop(g).g.score = g.score + 2 * DropDistance(g)

\* C15 as claimed: hard_drop moves the piece to the lowest row it can reach,
\* returns the rows descended d, adds 2*d to the score besides the
\* line-clear points and locks; on an empty board a dropped I piece locks in
\* row 0 with no line cleared and the score grows by exactly 2*d.
C15_HardDropAsClaimed ==
    HasPiece =>
        /\ DropsAndLocks(game)
        /\ FlatIOnEmptyBoard(game) =>
               /\ \A c \in DOMAIN hard_drop(game).g.occupied : c[2] = 0
               /\ hard_drop(game).g.last_cleared_lines = 0
               /\ hard_drop(game).g.score = game.score + 2 * hard_drop(game).ret

\* C15 as amended: the same, but the I piece dropped on an empty board
\* clears no line only when the board is wider than 4 columns; on a board 4
\* columns wide it completes row 0, which is pending and scored as a
\* one-line clear on top of the 2*d.
C15_HardDrop ==
    HasPiece =>
        /\ DropsAndLocks(game)
        /\ FlatIOnEmptyBoard(game) =>
               /\ {c[2] : c \in DOMAIN hard_drop(game).g.occupied} = {0}
               /\ Cardinality(DOMAIN hard_drop(game).g.occupied) = 4
               /\ IF game.width > 4
                  THEN /\ hard_drop(game).g.last_cleared_lines = 0
                       /\ hard_drop(game).g.clearing_rows = <<>>
                       /\ hard_drop(game).g.score = game.score + 2 * hard_drop(game).ret
                  ELSE /\ hard_drop(game).g.last_cleared_lines = 1
                       /\ hard_drop(game).g.clearing_rows = <<0>>
                       /\ hard_drop(game).g.score > game.score + 2 * hard_drop(game).ret

\* a flat I piece hangs over an empty board wider than 4 columns, at least
\* one row above the floor
C15_Witness ==
    /\ FlatIOnEmptyBoard(game)
    /\ game.width > 4
    /\ hard_drop(game).ret > 0
    /\ hard_drop(game).g.score = game.score + 2 * hard_drop(game).ret


\* C16: get_ghost returns a piece with the active piece's shape, rotation
\* and x whose z is the z at which hard_drop locks the piece, current.z minus
\* the distance hard_drop returns; it returns none when there is no active
\* piece.
C16_GhostIsDropPose ==
    IF HasPiece
    THEN /\ get_ghost(game) =
                <<[game.current[1] EXCEPT !.z = @ - hard_drop(game).ret]>>
         /\ \A c \in cells_global(get_ghost(game)[1]) :
                c[2] < game.height =>
                    /\ c \in DOMAIN hard_drop(game).g.occupied
                    /\ hard_drop(game).g.occupied[c] = game.current[1].key
    ELSE /\ get_ghost(game) = NoPiece
         /\ hard_drop(game).ret = 0

\* a rotated piece hangs at least two rows above the cells it would land on
C16_Witness ==
    /\ HasPiece
    /\ DOMAIN game.occupied # {}
    /\ game.current[1].rotation # 0
    /\ hard_drop(game).ret >= 2
    /\ get_ghost(game)[1].z > 0


\* the cell of a T piece that touches its three other cells
TCentre(piece) ==
    CHOOSE c \in cells_global(piece) :
        Cardinality({d \in cells_global(piece) :
                        \/ d[1] = c[1] /\ (d[2] = c[2] + 1 \/ d[2] = c[2] - 1)
                        \/ d[2] = c[2] /\ (d[1] = c[1] + 1 \/ d[1] = c[1] - 1)}) = 3

\* the four cells diagonal to cell c
Diagonals(c) ==
    {<<c[1] - 1, c[2] - 1>>, <<c[1] + 1, c[2] - 1>>,
     <<c[1] - 1, c[2] + 1>>, <<c[1] + 1, c[2] + 1>>}

\* at least 3 of the 4 cells diagonal to the T's centre are occupied or out
\* of bounds
ThreeCornersBlocked(g, piece) ==
    Cardinality({d \in Diagonals(TCentre(piece)) :
                    \/ d[1] < 0 \/ d[1] >= g.width
                    \/ d[2] < 0 \/ d[2] >= g.height
                    \/ d \in DOMAIN g.occupied}) >= 3

\* C17: after a lock last_t_spin is true iff the locked shape is T, the last
\* successful action was a rotate, and at least 3 of the 4 cells diagonal to
\* the T's centre cell are occupied or out of bounds, under SRS and SIMPLE.
C17_TSpinDetection ==
    HasPiece =>
        lock_current(game).last_t_spin =
            (/\ game.current[1].key = "T"
             /\ game.last_action = "ROTATE"
             /\ ThreeCornersBlocked(game, game.current[1]))

\* C17 under SRS alone, where the centre cell is the box's cell (1,1)
C17_TSpinDetectionSRS ==
    (HasPiece /\ game.current[1].system = "SRS") =>
        lock_current(game).last_t_spin =
            (/\ game.current[1].key = "T"
             /\ game.last_action = "ROTATE"
             /\ ThreeCornersBlocked(game, game.current[1]))


\* the points engine g awards a lock that completes `cleared` rows and for
\* which _detect_t_spin returned t_spin
Award(g, cleared, t_spin) ==
    apply_line_clear_scoring(lock_outcome(g, cleared, t_spin), cleared).score - g.score

\* C18 as claimed: from one engine state (level, scoring mode, combo,
\* back-to-back) a lock that clears 4 rows is awarded strictly more points
\* than a lock that clears 1, 2 or 3 rows, whatever the two locks are.
C18_FourRowsScoreMost ==
    \A cleared \in 1..3 : \A t4, t \in BOOLEAN :
        Award(game, 4, t4) > Award(game, cleared, t)

\* C18 as amended: from one engine state a lock that clears 4 rows and is
\* no T-spin is awarded strictly more than a lock that clears 1, 2 or 3 rows
\* and is no T-spin, and under EXPONENTIAL scoring more than any lock that
\* clears 1, 2 or 3 rows; under GUIDELINE scoring a T-spin lock that clears
\* 2 or 3 rows is awarded more than the four-row lock, and a T-spin lock
\* that clears 1 row at least as much unless back-to-back is active.
C18_FourRowsScoreMostNoTSpin ==
    /\ \A cleared \in 1..3 : Award(game, 4, FALSE) > Award(game, cleared, FALSE)
    /\ game.scoring_mode = "EXPONENTIAL" =>
           \A cleared \in 1..3 : \A t4, t \in BOOLEAN :
               Award(game, 4, t4) > Award(game, cleared, t)
    /\ game.scoring_mode = "GUIDELINE" =>
           /\ Award(game, 2, TRUE) > Award(game, 4, FALSE)
           /\ Award(game, 3, TRUE) > Award(game, 4, FALSE)
           /\ ~game.back_to_back => Award(game, 1, TRUE) >= Award(game, 4, FALSE)

\* an engine above level 1 with a running combo and back-to-back active:
\* every factor of the award is in play
C18_Witness ==
    /\ game.level > 1
    /\ game.combo >= 1
    /\ game.back_to_back
    /\ game.scoring_mode = "GUIDELINE"
    /\ game.combo_scoring_mode = "MULTIPLY"
    /\ Award(game, 4, FALSE) > Award(game, 3, FALSE)


\* the lock of this step was a four-row clear or a T-spin clear
DifficultClear(g) == g.last_cleared_lines > 0 /\ (g.last_t_spin \/ g.last_cleared_lines = 4)

\* C19: back_to_back is true iff the most recent line-clearing lock was a
\* four-row or a T-spin clear: it is false at the start, a lock that clears
\* rows sets it to whether that clear is one, and a lock that clears nothing
\* leaves it; and the 1.5x multiplier is applied to a clear exactly when the
\* clear is a four-row or T-spin clear and back_to_back was true before it.
C19_BackToBack ==
    [][IF game' = reset(game)
       THEN ~game'.back_to_back
       ELSE /\ game'.back_to_back =
                   (IF game'.last_cleared_lines > 0 THEN DifficultClear(game')
                    ELSE game.back_to_back)
            /\ game'.last_cleared_lines > 0 =>
                   game'.score - game.score =
                       Award([game EXCEPT !.back_to_back =
                                              (DifficultClear(game') /\ game.back_to_back)],
                             game'.last_cleared_lines, game'.last_t_spin)]_vars

\* C19, the part the engine keeps: a lock that clears rows sets back_to_back
\* to whether it is a four-row or T-spin clear, a lock that clears nothing
\* sets it to false, and the 1.5x multiplier is applied exactly when the
\* clear is a four-row or T-spin clear and back_to_back was true before it.
C19_BackToBackEngine ==
    [][IF game' = reset(game)
       THEN ~game'.back_to_back
       ELSE /\ game'.back_to_back = DifficultClear(game')
            /\ game'.last_cleared_lines > 0 =>
                   game'.score - game.score =
                       Award([game EXCEPT !.back_to_back =
                                              (DifficultClear(game') /\ game.back_to_back)],
                             game'.last_cleared_lines, game'.last_t_spin)]_vars


\* the combo engine l must show after a lock taken from engine g
ComboAfterLock(g, l) ==
    l.combo = (IF l.last_cleared_lines = 0 THEN -1
               ELSE IF g.combo >= 0 THEN g.combo + 1 ELSE 0)

LevelOf(g) == 1 + (g.lines_cleared_total \div g.lines_per_level)

C21_Level ==
    /\ game.lines_per_level >= 1
    /\ game.level >= 1
    /\ game.level = LevelOf(game)
    /\ \A value \in 1..MaxLevelLines :
           /\ set_lines_per_level(game, value).lines_per_level = value
           /\ set_lines_per_level(game, value).level >= 1
           /\ set_lines_per_level(game, value).level = LevelOf(set_lines_per_level(game, value))

\* in the middle of a game the setter has a value that changes the level
C21_Witness ==
    /\ game.lines_cleared_total >= 2
    /\ game.level >= 2
    /\ \E value \in 1..MaxLevelLines :
           set_lines_per_level(game, value).level # game.level


\* the rows that are full in the map of l and were not full in the map of g
CompletedRows(g, l) ==
    FullRows(l.occupied, l.width, l.height) \ FullRows(g.occupied, g.width, g.height)

\* l is g after a locking call that moved the piece `dropped` rows by a hard
\* drop: a single row completed without T-spin and without a running combo
\* counts as one line, starts the combo at 0 and scores 100 times the level
\* of g, after which the level is recomputed
SingleRowAward(g, l, dropped) ==
    (/\ g.combo = -1
     /\ Cardinality(CompletedRows(g, l)) = 1
     /\ ~l.last_t_spin)
    => /\ l.last_locked
       /\ l.last_cleared_lines = 1
       /\ l.combo = 0
       /\ l.score = g.score + 2 * dropped + 100 * g.level
       /\ l.lines_cleared_total = g.lines_cleared_total + 1
       /\ l.level = LevelOf(l)

\* C22: a lock that completes exactly one row, with no T-spin and no combo
\* running, sets last_cleared_lines to 1, takes combo from -1 to 0 and adds
\* to the score exactly 100 times the level in effect before the lock (a
\* hard drop adds its 2 points per row fallen besides); the level is
\* recomputed after the points are added.
C22_SingleRow ==
    HasPiece /\ ~game.game_over =>
        /\ SingleRowAward(game, lock_current(game), 0)
        /\ SingleRowAward(game, hard_drop(game).g, hard_drop(game).ret)
        /\ ~can_move(game, 0, -1) => SingleRowAward(game, tick_down(game).g, 0)

\* a lock has just completed one row from a combo of -1: one line counted,
\* combo 0, and the level has moved on from the level the points were scaled by
C22_Witness ==
    /\ game.last_locked
    /\ ~game.last_t_spin
    /\ game.last_cleared_lines = 1
    /\ game.combo = 0
    /\ game.lines_cleared_total = 1
    /\ game.level = 2
    /\ game.score \in {100 + 2 * n : n \in 0..BoardHeight}


\* what a caller can read of an engine
Snapshot(g) ==
    [occupied |-> g.occupied, current |-> g.current, hold_key |-> g.hold_key,
     can_hold |-> g.can_hold, next_queue |-> g.next_queue,
     score |-> g.score, level |-> g.level,
     lines_cleared_total |-> g.lines_cleared_total,
     combo |-> g.combo, back_to_back |-> g.back_to_back,
     clearing_rows |-> g.clearing_rows, game_over |-> g.game_over,
     last_locked |-> g.last_locked, last_cleared_lines |-> g.last_cleared_lines,
     last_t_spin |-> g.last_t_spin]

C24_AdvisorReadOnly == find_best_placement_2ply(game).g = game

\* with the preview queue filled, the 2-ply search leaves the engine as it was
C24_ReadOnlyOnFilledQueue ==
    Len(game.next_queue) >= game.next_queue_size =>
        find_best_placement_2ply(game).g = game


\* the anchor columns at which the cells of local lie in columns [0,width)
\* and do not collide at height z
FittingAnchors(g, local, z) ==
    {x \in (0 - 3)..(g.width - 1) :
        ~_collides(placed_cells(local, x, z), DOMAIN g.occupied, g.width, g.height)}

\* the columns the anchors of rotation r cover
CoveredBy(width, key, system, r) ==
    {x + c[1] : x \in anchor_range(width, rotated_cells(key, r, system)),
                c \in rotated_cells(key, r, system)}

\* the search of the active piece of g visits every fitting anchor of every
\* rotation, and its anchors cover every column of the board
AnchorsConsidered(g) ==
    /\ \A r \in 0..3 :
           FittingAnchors(g, rotated_cells(g.current[1].key, r, g.current[1].system),
                          g.current[1].z)
               \subseteq anchor_range(g.width,
                             rotated_cells(g.current[1].key, r, g.current[1].system))
    /\ \A column \in 0..(g.width - 1) :
           \E r \in 0..3 :
               column \in CoveredBy(g.width, g.current[1].key, g.current[1].system, r)

\* C25: for each rotation 0..3 the 1-ply search considers every anchor
\* column x for which all four cells of the shape lie in columns [0,width)
\* and which does not collide at the starting height; every column of the
\* board, column 0 included, is covered by a candidate of every shape.
C25_AnchorsConsidered == HasPiece => AnchorsConsidered(game)

\* where the active piece of g lands when dropped straight down: <<>> when
\* its pose collides, else the landing height
StraightDrop(g) ==
    _drop_z(cells_local(g.current[1]), g.current[1].x, g.current[1].z,
            DOMAIN g.occupied, g.width, g.height)

\* the active piece of g does not collide and its straight drop lands with
\* every cell below the top of the board
LandsBelowTop(g, zs) ==
    /\ zs # <<>>
    /\ \A c \in placed_cells(cells_local(g.current[1]), g.current[1].x, zs[1]) :
           c[2] < g.height

\* C26: find_best_placement returns none only when there is no active
\* piece or the active piece has no legal landing position: whenever the
\* active piece is in a non-colliding pose from which a straight drop lands
\* entirely below the board top, a placement is returned.
C26_PlacementReturned ==
    HasPiece /\ LandsBelowTop(game, StraightDrop(game)) =>
        find_best_placement(game) # <<>>


\* the candidates the 1-ply search of the active piece of g scores
Candidates(g) ==
    {c[1] : c \in {candidate_1ply(g.occupied, g.width, g.height, g.current[1].key,
                                  g.current[1].system, g.current[1].z, r, x) :
                       r \in 0..3, x \in 0..(g.width - 1)} \ {<<>>}}

\* c comes no later than d in the order of the loops: rotation, then column
NoLater(c, d) ==
    c.rotation < d.rotation \/ (c.rotation = d.rotation /\ c.x <= d.x)

\* best is the first of the candidates with the greatest score, and None
\* when there is no candidate
FirstBest(best, candidates) ==
    IF candidates = {} THEN best = <<>>
    ELSE /\ best # <<>>
         /\ best[1] \in candidates
         /\ \A c \in candidates :
                /\ c.score <= best[1].score
                /\ c.score = best[1].score => NoLater(best[1], c)

\* C27: the placement returned by find_best_placement has a score greater
\* than or equal to that of every considered candidate, and among the
\* candidates with the maximal score it is the first in rotation-major, then
\* ascending-column order.
C27_FirstBest ==
    HasPiece => FirstBest(find_best_placement(game), Candidates(game))

\* several candidates share the greatest score
TiedBest(best, candidates) ==
    /\ best # <<>>
    /\ Cardinality({c \in candidates : c.score = best[1].score}) >= 2

\* the stack is not empty and the search returns one of several candidates
\* of the greatest score
C27_Witness ==
    /\ HasPiece
    /\ DOMAIN game.occupied # {}
    /\ TiedBest(find_best_placement(game), Candidates(game))


\* the engine after its piece, put at rotation r, column x and height z, was
\* locked and the pending rows were removed
LockedAt(g, r, x, z) ==
    finalize_clear(lock_current(
        [g EXCEPT !.current = <<ActivePiece(g.current[1].key, r, x, z,
                                            g.current[1].system)>>]))

\* the board and the line count the advisor works out for the landing sim
\* are those of the engine e
SameAsEngine(sim, e) ==
    /\ DOMAIN sim.occupied = DOMAIN e.occupied
    /\ \A c \in DOMAIN sim.occupied : sim.occupied[c] = e.occupied[c]
    /\ sim.lines = e.last_cleared_lines

\* the landing of the candidate (r, x) of the active piece of g agrees with
\* the engine
LandingAgrees(g, r, x, local, zs) ==
    simulate_landing(g.occupied, g.width, g.height, g.current[1].key, local, x, zs) # <<>>
        => SameAsEngine(
               simulate_landing(g.occupied, g.width, g.height, g.current[1].key,
                                local, x, zs)[1],
               LockedAt(g, r, x, zs[1]))

\* C28: for every board and every candidate landing, the board the advisor
\* evaluates (landing cells overlaid, full rows removed, cells above shifted
\* down) and its lines-cleared count equal the occupancy and
\* last_cleared_lines the engine has after locking the same piece at the
\* same cells and calling finalize_clear.
C28_SameBoardAsEngine ==
    HasPiece /\ ~game.game_over =>
        \A r \in 0..3 :
            \A x \in anchor_range(game.width,
                         rotated_cells(game.current[1].key, r, game.current[1].system)) :
                LandingAgrees(game, r, x,
                    rotated_cells(game.current[1].key, r, game.current[1].system),
                    _drop_z(rotated_cells(game.current[1].key, r, game.current[1].system),
                            x, game.current[1].z, DOMAIN game.occupied,
                            game.width, game.height))

\* the best placement completes a row above cells that stay on the board
C28_Witness ==
    /\ HasPiece
    /\ ~game.game_over
    /\ find_best_placement(game) # <<>>
    /\ find_best_placement(game)[1].lines_cleared >= 1
    /\ find_best_placement(game)[1].aggregate_height >= 1


\* the scores of the placements of the shape next_key, dropped from its
\* spawn height, that the search scores on the board occupied
InnerScores(occupied, width, height, next_key, system) ==
    {c[1].score :
        c \in {candidate_1ply(occupied, width, height, next_key, system,
                              _spawn_start_z(next_key, height, system), r, x) :
                   r \in 0..3, x \in 0..(width - 1)} \ {<<>>}}

\* the board the 1-ply candidate c of the active piece of g leaves
BoardAfter(g, c) ==
    _clear_lines(
        simulated_map(g.occupied,
            placed_cells(rotated_cells(g.current[1].key, c.rotation, g.current[1].system),
                         c.x, c.z),
            g.current[1].key),
        g.width, g.height).occupied

\* outer score plus 4/5 of the best inner score; the penalty when there is
\* no inner score
TwoPlyScore(outer_score, inner_scores) ==
    IF inner_scores = {} THEN outer_score - NO_CONTINUATION_PENALTY
    ELSE outer_score + ((4 * SetMax(inner_scores)) \div 5)

\* the first-piece candidates of g with the scores the claim gives them
Candidates2Ply(g, next_key) ==
    {[c EXCEPT !.score =
         TwoPlyScore(c.score,
             InnerScores(BoardAfter(g, c), g.width, g.height, next_key,
                         g.current[1].system))] :
        c \in Candidates(g)}

\* best is a penalised candidate only if every candidate is penalised
PenalisedLast(best, candidates) ==
    (best # <<>> /\ best[1].score < 0 - (NO_CONTINUATION_PENALTY \div 2))
        => \A c \in candidates : c.score < 0 - (NO_CONTINUATION_PENALTY \div 2)

TwoPlyAsClaimed(best, candidates) ==
    FirstBest(best, candidates) /\ PenalisedLast(best, candidates)

CountOf(plan, action) == Cardinality({i \in 1..Len(plan) : plan[i] = action})

\* plan is: at most two rotations with net effect delta, then the moves
\* from column from_x to column to_x, then one DROP
PlanAsClaimed(plan, delta, from_x, to_x) ==
    LET rotations == CountOf(plan, "ROT_CW") + CountOf(plan, "ROT_CCW")
        moves == CountOf(plan, "LEFT") + CountOf(plan, "RIGHT")
    IN  /\ rotations <= 2
        /\ (CountOf(plan, "ROT_CW") + 3 * CountOf(plan, "ROT_CCW")) % 4 = delta
        /\ delta = 3 => CountOf(plan, "ROT_CCW") = 1 /\ CountOf(plan, "ROT_CW") = 0
        /\ delta = 2 => CountOf(plan, "ROT_CW") = 2 /\ CountOf(plan, "ROT_CCW") = 0
        /\ moves = Abs(to_x - from_x)
        /\ to_x > from_x => CountOf(plan, "RIGHT") = moves
        /\ to_x < from_x => CountOf(plan, "LEFT") = moves
        /\ Len(plan) = rotations + moves + 1
        /\ \A i \in 1..rotations : plan[i] \in {"ROT_CW", "ROT_CCW"}
        /\ \A i \in (rotations + 1)..(rotations + moves) : plan[i] \in {"LEFT", "RIGHT"}
        /\ plan[Len(plan)] = "DROP"

\* C30: for all current and target rotations and columns, plan_actions
\* returns at most two rotation actions whose net effect on the rotation
\* state is (target - current) mod 4 (one ROT_CCW for delta 3, two ROT_CW for
\* delta 2), then exactly |target_x - current_x| moves, all in the direction
\* of the target, then exactly one DROP as the last action.
C30_PlanActions ==
    HasPiece =>
        \A target_rotation \in 0..3, target_x \in (0 - 2)..(game.width - 1) :
            PlanAsClaimed(plan_actions(game.current[1], target_rotation, target_x),
                          (target_rotation - game.current[1].rotation) % 4,
                          game.current[1].x, target_x)

\* a piece in rotation state 3, two columns right of column 0: the plan to
\* rotation 2 at column 0 is one ROT_CCW, two LEFT and the DROP
C30_Witness ==
    /\ HasPiece
    /\ game.current[1].rotation = 3
    /\ game.current[1].x = 2
    /\ plan_actions(game.current[1], 2, 0) = <<"ROT_CCW", "LEFT", "LEFT", "DROP">>


(***************************************************************************)
(* C31: under the SIMPLE rotation system the layout of every shape in      *)
(* every rotation state 0..3 has exactly 4 cells, minimum x 0 and minimum  *)
(* z 0; stated of the layout of the active piece and of the layouts its    *)
(* rotations lead to.                                                      *)
(***************************************************************************)
NormalisedLayout(cells) ==
    /\ Cardinality(cells) = 4
    /\ cells_bbox(cells)[1] = 0
    /\ cells_bbox(cells)[2] = 0

C31_SimpleLayoutNormalised ==
    (HasPiece /\ game.rotation_system = "SIMPLE")
        => \A rotation \in 0..3 :
               NormalisedLayout(rotated_cells(game.current[1].key, rotation, "SIMPLE"))

\* the part of C31 the code keeps: every layout has 4 cells, and the layouts
\* of the rotation states 1..3 are normalised
C31_SimpleLayoutTurned ==
    (HasPiece /\ game.rotation_system = "SIMPLE")
        => /\ Cardinality(cells_local(game.current[1])) = 4
           /\ game.current[1].rotation \in 1..3
                  => NormalisedLayout(cells_local(game.current[1]))


(***************************************************************************)
(* C32: in every reachable state the four cells of the active piece are    *)
(* inside the columns [0,width), at rows >= 0 and disjoint from the        *)
(* occupancy map, whatever the interleaving of the calls.                  *)
(***************************************************************************)
C32_ActivePieceFree ==
    HasPiece => CellsFree(game, cells_global(game.current[1]))


(***************************************************************************)
(* C33: every completed row is scored exactly once: lines_cleared_total is *)
(* the number of rows finalize_clear has removed so far plus the number of *)
(* rows pending, also when pieces lock before finalize_clear is called.    *)
(***************************************************************************)
C33_RowsScoredOnce ==
    game.engine.lines_cleared_total
        = game.removed + Len(game.engine.clearing_rows)


(***************************************************************************)
(* C34: in the play loop every piece that becomes active is locked or      *)
(* moved into the hold slot before another takes its place: the pieces     *)
(* made active so far are those locked or held plus the one in the field,  *)
(* so the spawn_piece that ends a line-clear animation replaces no piece.  *)
(***************************************************************************)
C34_NoPieceSkipped ==
    game.activated = game.retired + Active(game.engine)


(***************************************************************************)
(* C35: in every reachable state clearing_rows is exactly the set of the   *)
(* fully occupied rows of the occupancy map: a lock sets it to all full    *)
(* rows, move, rotate, spawn and hold leave it alone, and after            *)
(* finalize_clear or reset it is empty and no row is full.                 *)
(***************************************************************************)
PendingAreFull(g) ==
    /\ PendingRows(g) = FullRows(g.occupied, g.width, g.height)
    /\ Len(g.clearing_rows) = Cardinality(PendingRows(g))

NothingPending(g) ==
    /\ g.clearing_rows = <<>>
    /\ FullRows(g.occupied, g.width, g.height) = {}

C35_ClearingRowsAreFullRows ==
    /\ PendingAreFull(game)
    /\ PendingAreFull(lock_current(game))
    /\ PendingAreFull(tick_down(game).g)
    /\ PendingAreFull(hard_drop(game).g)
    /\ \A m \in Moves : try_move(game, m[1], m[2]).g.clearing_rows = game.clearing_rows
    /\ \A cw \in BOOLEAN : try_rotate(game, cw).g.clearing_rows = game.clearing_rows
    /\ spawn_piece(game, NoKey).g.clearing_rows = game.clearing_rows
    /\ try_hold(game).g.clearing_rows = game.clearing_rows
    /\ NothingPending(finalize_clear(game))
    /\ NothingPending(reset(game))

\* a piece is locked while a row is pending, and completes a second row
C35_Witness ==
    /\ HasPiece
    /\ game.clearing_rows # <<>>
    /\ Len(hard_drop(game).g.clearing_rows) > Len(game.clearing_rows)


(***************************************************************************)
(* C36: the shapes that become active through pops of the preview queue    *)
(* come in the order they were drawn from the bag, none skipped or         *)
(* duplicated: the shapes drawn and not yet popped are the queue, in draw  *)
(* order (compared over the draws of the current bag), and peek_next(1)    *)
(* names the shape the next queue spawn makes active.                      *)
(***************************************************************************)
LastOf(q, k) == SubSeq(q, Len(q) - k + 1, Len(q))

QueueHoldsDraws(g) ==
    LET k == Min2(Len(g.draws), Len(g.next_queue))
    IN  LastOf(g.next_queue, k) = LastOf(g.draws, k)

C36_QueueInDrawOrder ==
    /\ QueueHoldsDraws(game)
    /\ LET s == spawn_piece(game, NoKey).g
       IN  s.current # NoPiece => s.current[1].key = peek_next(game, 1).ret[1]


(***************************************************************************)
(* C37: a lock performed by hard_drop never reports a T-spin, whatever     *)
(* came before it: hard_drop tags the last action as DROP before it locks. *)
(* A lock reports a T-spin only when lock_current or tick_down locks a T   *)
(* while the last action tag is ROTATE.                                    *)
(***************************************************************************)
TSpinOnlyAfterRotate(g, l) ==
    (l.last_locked /\ l.last_t_spin)
        => /\ g.last_action = "ROTATE"
           /\ g.current[1].key = "T"

CellsOfPlacement(g, best) ==
    placed_cells(rotated_cells(g.current[1].key, best.rotation, g.rotation_system),
                 best.x, best.z)

PlanReaches(g, best) ==
    LET fed == feed_plan(g, plan_actions(g.current[1], best.rotation, best.x))
    IN  /\ fed.last_locked
        /\ DOMAIN fed.occupied = CellsOfPlacement(g, best)

C38_PlanReachesPlacement ==
    (/\ HasPiece
     /\ IsSpawnPose(game, game.current[1])
     /\ game.occupied = <<>>
     /\ find_best_placement(game) # <<>>)
        => PlanReaches(game, find_best_placement(game)[1])

\* a piece at its spawn pose on an empty board whose best placement lies to
\* the right of the spawn column, and is locked there
C38_Witness ==
    /\ HasPiece
    /\ IsSpawnPose(game, game.current[1])
    /\ game.occupied = <<>>
    /\ find_best_placement(game) # <<>>
    /\ find_best_placement(game)[1].x > game.current[1].x
    /\ PlanReaches(game, find_best_placement(game)[1])


(***************************************************************************)
(* C39: gravity alone makes progress: from a state with an active piece,   *)
(* tick_down called again and again returns true at most as many times as  *)
(* the piece is rows above the floor and then returns false having locked  *)
(* the piece; every call either lowers z by one or locks.                  *)
(***************************************************************************)
HeightAboveFloor(piece) == SetMin({c[2] : c \in cells_global(piece)})

\* tick_down until it returns false: the engine then, and how many calls
\* returned true
RECURSIVE GravityRun(_, _)
GravityRun(g, n) ==
    IF tick_down(g).ret THEN GravityRun(tick_down(g).g, n + 1)
    ELSE [g |-> tick_down(g).g, n |-> n]

LowersOrLocks(g, t) ==
    IF t.ret
    THEN t.g.current = <<[g.current[1] EXCEPT !.z = @ - 1]>>
    ELSE /\ t.g.last_locked
         /\ \A c \in cells_global(g.current[1]) :
                c[2] < g.height => c \in DOMAIN t.g.occupied

C39_GravityTerminates ==
    HasPiece
        => /\ LowersOrLocks(game, tick_down(game))
           /\ GravityRun(game, 0).n <= HeightAboveFloor(game.current[1])
           /\ GravityRun(game, 0).g.last_locked
           /\ \A c \in cells_global(game.current[1]) :
                  c[2] - GravityRun(game, 0).n < game.height
                      => <<c[1], c[2] - GravityRun(game, 0).n>>
                             \in DOMAIN GravityRun(game, 0).g.occupied

\* a piece that falls at least one row and comes to rest on the stack,
\* above the floor
C39_Witness ==
    /\ HasPiece
    /\ GravityRun(game, 0).n >= 1
    /\ GravityRun(game, 0).n < HeightAboveFloor(game.current[1])


(***************************************************************************)
(* C40: at most one play loop drives the session: Start is refused while a *)
(* loop is running, and after Restart and Start, however the calls and the *)
(* timer events interleave, a timer event is acted on by one loop only.    *)
(***************************************************************************)
C40_OneLoopDrives ==
    /\ game.drivers <= 1
    /\ game.running => play_invoke(game) = game

=============================================================================
